---- MODULE Spec2Model ----
(***************************************************************************)
(* Schema-driven decoder, segmentation engine and DPI synthesizer of       *)
(* py_scripts/ML/predict_DPI.py (and the training-side twin in             *)
(* py_scripts/ML/train_model.py).                                          *)
(*                                                                         *)
(* Representation of Python values.  Every decoded value is a record       *)
(*   [k, n, s, l]                                                          *)
(* k = "int"   : n is the integer                                          *)
(* k = "bool"  : n is 0 or 1                                               *)
(* k = "float" : n is the big-endian integer of the IEEE-754 bytes (the    *)
(*               value is kept by its bit pattern, which is lossless)      *)
(* k = "str"   : s is the sequence of code points of the text              *)
(* k = "list"  : l is the sequence of element values                       *)
(* A declared type is [arr, tok]: the string tok, or "array of " + tok     *)
(* when arr is TRUE (tokens hold no blank, so the two never coincide).     *)
(***************************************************************************)
EXTENDS Integers, Sequences, FiniteSets, TLC

VARIABLES
    protocol_df,   \* the compiled schema (module-level protocol_df)
    pc,            \* position of the program
    pkts,          \* number of packets of the capture already taken
    payload,       \* bytes(pkt[UDP].payload) of the packet being decoded
    src_ip,        \* endpoint key of the packet being decoded
    pkt,           \* the datagram being decoded: its UDP ports and IP addresses
    idx,           \* index (1-based) of the schema row being decoded
    offset,        \* byte offset in the payload
    packet_data,   \* name -> value of the fields decoded so far
    records,       \* records of the packet being decoded
    data,          \* endpoint -> list of record lists
    field_name,    \* generate_dpi: the field whose occurrences are worked on
    stats,         \* generate_dpi: the occurrences of that field
    seg_dict,      \* segment_stats(stats): list of <<label, indices>>
    oracle,        \* generate_dpi: what the loaded models answer
    packets,       \* generate_dpi: the record lists of the endpoint
    field_stats,   \* generate_dpi: list of <<field name, occurrences>>
    field_dpi_alternatives,  \* list of <<label, descriptor>> of the field
    fields_dpi,    \* list of <<field name, field_dpi_alternatives>>
    all_alt_keys,  \* set of the labels seen for the endpoint
    dpi_result,    \* set of <<label, list of <<field name, descriptor>> >>
    coll,          \* load_custom_types: the documents of the catalog
    result,        \* load_custom_types: type name -> compiled definition
    file_lines,    \* load_protocol_definitions: the non-blank lines, in tokens
    line_no,       \* number of lines after the first already compiled
    rows           \* load_protocol_definitions: the rows compiled so far

decVars == <<pkts, payload, src_ip, pkt, idx, offset, packet_data, records>>
segVars == <<field_name, stats, seg_dict>>
dpiVars == <<oracle, packets, field_stats, field_dpi_alternatives, fields_dpi,
             all_alt_keys, dpi_result>>
cmpVars == <<coll, result, file_lines, line_no, rows>>

vars == <<protocol_df, pc, pkts, payload, src_ip, idx, offset, packet_data,
          records, data, field_name, stats, seg_dict, oracle, packets,
          field_stats, field_dpi_alternatives, fields_dpi, all_alt_keys,
          dpi_result, pkt, coll, result, file_lines, line_no, rows>>

-----------------------------------------------------------------------------
(* Bounds of the model *)

\* longest payload of a datagram
MaxPayload == 3
\* number of datagrams in a capture
MaxPackets == 2
\* number of occurrences of a field handed to segment_stats, all orders
MaxOcc == 4
\* number of occurrences of a field in a long capture of regular values
MaxBulk == 201

\* byte values the payloads are drawn from: a small binary number and the
\* digit "1"
ByteAlphabet == {1, 49}

-----------------------------------------------------------------------------
(* Python values *)

IntV(n)   == [k |-> "int",   n |-> n, s |-> <<>>, l |-> <<>>]
BoolV(b)  == [k |-> "bool",  n |-> IF b THEN 1 ELSE 0, s |-> <<>>, l |-> <<>>]
FloatV(b) == [k |-> "float", n |-> b, s |-> <<>>, l |-> <<>>]
StrV(s)   == [k |-> "str",   n |-> 0, s |-> s, l |-> <<>>]
ListV(l)  == [k |-> "list",  n |-> 0, s |-> <<>>, l |-> l]
NoneV     == [k |-> "none",  n |-> 0, s |-> <<>>, l |-> <<>>]

\* absent dictionary entries and None
Absent == "<absent>"
None   == -1

\* a float of numpy: [nan, n]; not-a-number carries no n
Num(n) == [nan |-> FALSE, n |-> n]
NaN    == [nan |-> TRUE,  n |-> 0]

\* no datagram taken yet
NoPacket == [udp |-> FALSE, sport |-> 0, dport |-> 0, src |-> "", dst |-> ""]

\* the schema compiler has not run in this part of the program
CmpIdle ==
    /\ coll = <<>>
    /\ result = <<>>
    /\ file_lines = <<>>
    /\ line_no = 0
    /\ rows = <<>>

\* no model loaded, nothing synthesized yet
NoOracle ==
    [is_dynamic |-> 0, min_size |-> NaN, max_size |-> NaN, min_value |-> NaN,
     max_value |-> NaN, field_type |-> "", bit_count |-> NaN]

DpiIdle ==
    /\ oracle = NoOracle
    /\ packets = <<>>
    /\ field_stats = <<>>
    /\ field_dpi_alternatives = <<>>
    /\ fields_dpi = <<>>
    /\ all_alt_keys = {}
    /\ dpi_result = {}

Min2(a, b) == IF a < b THEN a ELSE b
Max2(a, b) == IF a > b THEN a ELSE b

\* Python's seq[a:b] on a 1-based TLA+ sequence
Slice(seq, a, b) ==
    LET n  == Len(seq)
        lo == IF a < 0 THEN Max2(a + n, 0) ELSE Min2(a, n)
        hi == IF b < 0 THEN Max2(b + n, 0) ELSE Min2(b, n)
    IN  IF lo >= hi THEN <<>> ELSE SubSeq(seq, lo + 1, hi)

\* int.from_bytes(chunk, 'big')
RECURSIVE from_bytes(_)
from_bytes(chunk) ==
    IF chunk = <<>> THEN 0
    ELSE 256 * from_bytes(SubSeq(chunk, 1, Len(chunk) - 1)) + chunk[Len(chunk)]

\* chunk.decode('utf-8', 'ignore'): bytes that cannot start or continue a
\* character are dropped (exact for chunks without the lead bytes C2..F4)
utf8_ignore(chunk) == SelectSeq(chunk, LAMBDA b : b < 128)

\* a faulty variant: the padding is kept
keep_nul(s) == s

\* text.rstrip('\x00')
RECURSIVE rstrip_nul(_)
rstrip_nul(s) ==
    IF s # <<>> /\ s[Len(s)] = 0 THEN rstrip_nul(SubSeq(s, 1, Len(s) - 1)) ELSE s

HexDigit(d) == IF d < 10 THEN 48 + d ELSE 87 + d

\* chunk.hex()
RECURSIVE hex(_)
hex(chunk) ==
    IF chunk = <<>> THEN <<>>
    ELSE <<HexDigit(chunk[1] \div 16), HexDigit(chunk[1] % 16)>> \o hex(Tail(chunk))

\* binary digits of v >= 0, most significant first, without leading zeros
RECURSIVE BinDigits(_)
BinDigits(v) == IF v < 2 THEN <<v>> ELSE BinDigits(v \div 2) \o <<v % 2>>

\* the list [Op(1), ..., Op(n)], as a tuple of computed elements
Tabulate(n, Op(_)) == [i \in 1..n |-> Op(i)] \o <<>>

Zeros(n) == Tabulate(n, LAMBDA i : 0)

\* list(map(int, format(v, f'0{w}b'))): zero padded to w digits, never cut
FormatBits(v, w) ==
    LET d == BinDigits(v)
    IN  IF Len(d) >= w THEN d ELSE Zeros(w - Len(d)) \o d

RECURSIVE SumSeq(_)
SumSeq(s) == IF s = <<>> THEN 0 ELSE s[1] + SumSeq(Tail(s))

-----------------------------------------------------------------------------
(* IEEE-754 single precision, by bit pattern *)

Pow2(e) == 2 ^ e
FloatExp(b)  == (b \div Pow2(23)) % 256
FloatMant(b) == b % Pow2(23)
FloatIsNaN(b) == FloatExp(b) = 255 /\ FloatMant(b) # 0
FloatIsInf(b) == FloatExp(b) = 255 /\ FloatMant(b) = 0

\* struct.unpack('!f', chunk) / struct.unpack('!d', chunk): struct.error
\* unless the chunk has exactly the width of the format
unpack(chunk, width) ==
    IF Len(chunk) # width THEN [ok |-> FALSE, v |-> IntV(0)]
    ELSE [ok |-> TRUE, v |-> FloatV(from_bytes(chunk))]

-----------------------------------------------------------------------------
(* int(x) of Python *)

IsSpace(c) == c \in {9, 10, 11, 12, 13, 32}
IsDigit(c) == c \in 48..57

RECURSIVE lstrip_space(_)
lstrip_space(s) == IF s # <<>> /\ IsSpace(s[1]) THEN lstrip_space(Tail(s)) ELSE s

RECURSIVE rstrip_space(_)
rstrip_space(s) ==
    IF s # <<>> /\ IsSpace(s[Len(s)])
    THEN rstrip_space(SubSeq(s, 1, Len(s) - 1)) ELSE s

\* digits, with single underscores between digits
DigitsOk(s) ==
    /\ s # <<>>
    /\ IsDigit(s[1]) /\ IsDigit(s[Len(s)])
    /\ \A i \in 1..Len(s) : IsDigit(s[i]) \/ s[i] = 95
    /\ \A i \in 1..(Len(s) - 1) : ~(s[i] = 95 /\ s[i + 1] = 95)

RECURSIVE DigitsVal(_)
DigitsVal(s) ==
    IF s = <<>> THEN 0
    ELSE IF s[Len(s)] = 95 THEN DigitsVal(SubSeq(s, 1, Len(s) - 1))
    ELSE 10 * DigitsVal(SubSeq(s, 1, Len(s) - 1)) + (s[Len(s)] - 48)

\* int(text): [ok, n]; ok = FALSE is ValueError
int_of_text(s) ==
    LET t    == rstrip_space(lstrip_space(s))
        sign == t # <<>> /\ t[1] \in {43, 45}
        body == IF sign THEN Tail(t) ELSE t
    IN  IF DigitsOk(body)
        THEN [ok |-> TRUE,
              n  |-> IF sign /\ t[1] = 45 THEN 0 - DigitsVal(body) ELSE DigitsVal(body)]
        ELSE [ok |-> FALSE, n |-> 0]

\* truncation of a finite single-precision value towards zero
FloatTrunc(b) ==
    LET neg == (b \div Pow2(24)) >= 128
        e   == FloatExp(b)
        m   == IF e = 0 THEN FloatMant(b) ELSE Pow2(23) + FloatMant(b)
        mag == IF e < 127 THEN 0
               ELSE IF e <= 150 THEN m \div Pow2(150 - e)
               ELSE m * Pow2(e - 150)
    IN  IF neg THEN 0 - mag ELSE mag

\* int(value): [ok, n]; ok = FALSE is TypeError, ValueError or OverflowError
int_of(v) ==
    CASE v.k = "int"   -> [ok |-> TRUE, n |-> v.n]
      [] v.k = "bool"  -> [ok |-> TRUE, n |-> v.n]
      [] v.k = "float" -> IF FloatIsNaN(v.n) \/ FloatIsInf(v.n)
                          THEN [ok |-> FALSE, n |-> 0]
                          ELSE [ok |-> TRUE, n |-> FloatTrunc(v.n)]
      [] v.k = "str"   -> int_of_text(v.s)
      [] OTHER         -> [ok |-> FALSE, n |-> 0]

-----------------------------------------------------------------------------
(* Declared types and schema rows *)

Plain(tok)   == [arr |-> FALSE, tok |-> tok]
ArrayOf(tok) == [arr |-> TRUE,  tok |-> tok]

\* str.lower() on the type tokens
lower(t) ==
    CASE t = "INT"      -> "int"
      [] t = "Char"     -> "char"
      [] t = "BITFIELD" -> "bitfield"
      [] t = "Bit"      -> "bit"
      [] t = "ARRAY"    -> "array"
      [] t = "Point"    -> "point"
      [] OTHER          -> t

\* declared.startswith('array of ')
startswith_array_of(t) == t.arr

Row(name, size, type, sf, ne, bf) ==
    [name |-> name, size |-> size, type |-> type, size_field |-> sf,
     num_elements |-> ne, is_bitfield |-> bf]

\* int(token) on the decimal tokens of the protocol text: [ok, n]
DecimalTokens == <<"0", "1", "2", "3", "4", "5", "6", "7", "8">>

int_of_token(t) ==
    IF \E i \in 1..Len(DecimalTokens) : DecimalTokens[i] = t
    THEN [ok |-> TRUE, n |-> (CHOOSE i \in 1..Len(DecimalTokens) : DecimalTokens[i] = t) - 1]
    ELSE [ok |-> FALSE, n |-> 0]

-----------------------------------------------------------------------------
(* load_custom_types: the catalog documents and their compiled form *)

Doc(name, total, fields) == [name |-> name, totalSize |-> total, fields |-> fields]
DocField(name, size, type, arrayType, arrayCount) ==
    [name |-> name, size |-> size, type |-> type,
     arrayType |-> arrayType, arrayCount |-> arrayCount]

CustomDocs ==
    << Doc("Point", 2, << DocField("x", 1, "int", "", 0),
                          DocField("y", 1, "INT", "", 0) >>) >>

custom_field(f) ==
    LET ftype == lower(f.type)
    IN  IF ftype = "array"
        THEN Row(f.name, f.size, ArrayOf(f.arrayType), "", f.arrayCount, FALSE)
        ELSE IF ftype \in {"bitfield", "bit"}
        THEN Row(f.name, f.size, Plain("bitfield"), "", 0, TRUE)
        ELSE Row(f.name, f.size, Plain(ftype), "", 0, FALSE)

load_custom_types(docs) ==
    [ t \in { docs[i].name : i \in 1..Len(docs) } |->
        LET d == docs[CHOOSE i \in 1..Len(docs) :
                        /\ docs[i].name = t
                        /\ \A j \in (i + 1)..Len(docs) : docs[j].name # t]
        IN  [fields     |-> [i \in 1..Len(d.fields) |-> custom_field(d.fields[i])],
             total_size |-> d.totalSize] ]

custom_types == load_custom_types(CustomDocs)

-----------------------------------------------------------------------------
(* load_protocol_definitions *)

\* a faulty variant: the element count of the sub-field is not copied
inlined_without_count(name, sub) ==
    Row(name, sub.size, sub.type, sub.size_field, 0, sub.is_bitfield)

\* the row a sub-field of a custom type is inlined as (lines 125-132, 144-151)
inlined(name, sub) ==
    Row(name, sub.size, sub.type, sub.size_field, sub.num_elements, sub.is_bitfield)

\* the rows one line of the protocol text compiles to: [ok, rows]
\* ok = FALSE is the ValueError of a malformed line or of int(token)
compile_line(toks, ctypes) ==
    LET n == Len(toks) IN
    IF n = 3 /\ toks[3] \in DOMAIN ctypes
    THEN LET subs == ctypes[toks[3]].fields
         IN  [ok |-> TRUE,
              rows |-> [i \in 1..Len(subs) |->
                         inlined(toks[1] \o "." \o subs[i].name, subs[i])]]
    ELSE IF n = 5 /\ lower(toks[3]) = "array" /\ toks[4] \in DOMAIN ctypes
    THEN LET subs  == ctypes[toks[4]].fields
             nf    == Len(subs)
             total == int_of_token(toks[2])
             count == int_of_token(toks[5])
         IN  IF ~total.ok \/ ~count.ok THEN [ok |-> FALSE, rows |-> <<>>]
             ELSE [ok |-> TRUE,
                   rows |-> [k \in 1..(count.n * nf) |->
                     LET i   == (k - 1) \div nf
                         sub == subs[((k - 1) % nf) + 1]
                     IN  inlined(toks[1] \o "[" \o ToString(i) \o "]." \o sub.name,
                                 sub)]]
    ELSE IF n = 5 /\ lower(toks[3]) = "array"
    THEN LET sz == int_of_token(toks[2])
             ne == int_of_token(toks[5])
         IN  IF ~sz.ok \/ ~ne.ok THEN [ok |-> FALSE, rows |-> <<>>]
             ELSE [ok |-> TRUE,
                   rows |-> << Row(toks[1], sz.n, ArrayOf(toks[4]), "", ne.n, FALSE) >>]
    ELSE IF n = 3
    THEN LET sz == int_of_token(toks[2])
         IN  IF ~sz.ok THEN [ok |-> FALSE, rows |-> <<>>]
             ELSE [ok |-> TRUE,
                   rows |-> << Row(toks[1], sz.n, Plain(toks[3]), "", 0,
                                   lower(toks[3]) \in {"bit", "bitfield"}) >>]
    ELSE IF n = 4
    THEN LET sz == int_of_token(toks[2])
         IN  IF ~sz.ok THEN [ok |-> FALSE, rows |-> <<>>]
             ELSE [ok |-> TRUE,
                   rows |-> << Row(toks[1], sz.n, Plain(toks[3]), toks[4], 0,
                                   lower(toks[3]) \in {"bit", "bitfield"}) >>]
    ELSE [ok |-> FALSE, rows |-> <<>>]

RECURSIVE compile_lines(_, _)
compile_lines(lines, ctypes) ==
    IF lines = <<>> THEN [ok |-> TRUE, rows |-> <<>>]
    ELSE LET head == compile_line(lines[1], ctypes)
             rest == compile_lines(Tail(lines), ctypes)
         IN  IF head.ok /\ rest.ok
             THEN [ok |-> TRUE, rows |-> head.rows \o rest.rows]
             ELSE [ok |-> FALSE, rows |-> <<>>]

\* text: the non-blank lines, each a tuple of tokens; the first is the count
load_protocol_definitions(text, ctypes) ==
    IF text = <<>> \/ text[1] = <<>> \/ ~int_of_token(text[1][1]).ok
    THEN [ok |-> FALSE, rows |-> <<>>]
    ELSE compile_lines(Tail(text), ctypes)

\* protocol_mapping = dict(zip(names, size_fields)): the last row of a name wins
protocol_mapping(df) ==
    [ nm \in { df[i].name : i \in 1..Len(df) } |->
        df[CHOOSE i \in 1..Len(df) :
             /\ df[i].name = nm
             /\ \A j \in (i + 1)..Len(df) : df[j].name # nm].size_field ]

-----------------------------------------------------------------------------
(* parse_pcap_with_ip: decoding one field of one packet *)

\* sum of the non-zero declared sizes of the rows after row i
RECURSIVE remaining_after(_, _)
remaining_after(df, i) ==
    IF i >= Len(df) THEN 0
    ELSE (IF df[i + 1].size # 0 THEN df[i + 1].size ELSE 0) + remaining_after(df, i + 1)

\* resolve_size with the bytes of the later rows not set aside
resolve_size_no_remaining(df, i, plen, off, pd) ==
    LET row == df[i]
        dyn == plen - off
    IN  IF row.size # 0 THEN row.size
        ELSE IF row.size_field # ""
        THEN IF row.size_field \in DOMAIN pd
             THEN LET r == int_of(pd[row.size_field])
                  IN  IF r.ok THEN r.n ELSE dyn
             ELSE dyn
        ELSE dyn

\* resolve_size with the size field's value ignored
resolve_size_no_size_field(df, i, plen, off, pd) ==
    LET row == df[i]
        dyn == plen - off - remaining_after(df, i)
    IN  IF row.size # 0 THEN row.size ELSE dyn

\* the size of row i for this packet (lines 240-254)
resolve_size(df, i, plen, off, pd) ==
    LET row == df[i]
        dyn == plen - off - remaining_after(df, i)
    IN  IF row.size # 0 THEN row.size
        ELSE IF row.size_field # ""
        THEN IF row.size_field \in DOMAIN pd
             THEN LET r == int_of(pd[row.size_field])
                  IN  IF r.ok THEN r.n ELSE dyn
             ELSE dyn
        ELSE dyn

\* the bounds check, one byte too lenient
not_enough_data_off_by_one(off, fsize, plen) == off + fsize > plen + 1

\* the bounds check of line 257
not_enough_data(off, fsize, plen) == off + fsize > plen

\* one element of an array (lines 269-278): [ok, v]
decode_element(base, chunk) ==
    LET b == lower(base) IN
    CASE b = "int"    -> [ok |-> TRUE, v |-> IntV(from_bytes(chunk))]
      [] b = "float"  -> unpack(chunk, 4)
      [] b = "double" -> unpack(chunk, 8)
      [] b = "char"   -> [ok |-> TRUE, v |-> StrV(rstrip_nul(utf8_ignore(chunk)))]
      [] OTHER        -> [ok |-> TRUE, v |-> StrV(hex(chunk))]

\* a scalar (lines 302-315): [ok, v]
decode_scalar(ftype, chunk) ==
    LET lt == lower(ftype) IN
    CASE lt = "int"    -> [ok |-> TRUE, v |-> IntV(from_bytes(chunk))]
      [] lt = "float"  -> unpack(chunk, 4)
      [] lt = "double" -> unpack(chunk, 8)
      [] lt = "char"   -> [ok |-> TRUE, v |-> StrV(rstrip_nul(utf8_ignore(chunk)))]
      [] lt = "bool"   -> [ok |-> TRUE, v |-> BoolV(from_bytes(chunk) # 0)]
      [] OTHER         -> [ok |-> TRUE, v |-> StrV(hex(chunk))]

Record(name, size, value, type, sf, bcount, ne, bits) ==
    [field_name |-> name, size |-> size, value |-> value, field_type |-> type,
     size_defining_field |-> sf, bitfields_count |-> bcount,
     num_elements |-> ne, bit_vector |-> bits]

put(pd, name, v) ==
    [nm \in (DOMAIN pd) \cup {name} |-> IF nm = name THEN v ELSE pd[nm]]

\* the body of the loop over the rows, for row i (lines 233-330).
\* status: "ok" (record appended), "break" (bounds check) or "raise"
decode_field(df, i, pl, off, pd, recs) ==
    LET row   == df[i]
        fsize == resolve_size(df, i, Len(pl), off, pd)
        same  == [status |-> "break", offset |-> off, packet_data |-> pd, records |-> recs]
        fail  == [same EXCEPT !.status = "raise"]
    IN  IF not_enough_data(off, fsize, Len(pl)) THEN same
        ELSE IF startswith_array_of(row.type)
        THEN IF row.num_elements = 0 THEN fail
             ELSE LET ne      == row.num_elements
                      elem_sz == fsize \div ne
                      elts    == [e \in 1..ne |->
                                   decode_element(row.type.tok,
                                       Slice(pl, off + (e - 1) * elem_sz,
                                                 off + (e - 1) * elem_sz + elem_sz))]
                      vals    == ListV([e \in 1..ne |-> elts[e].v])
                  IN  IF \E e \in 1..ne : ~elts[e].ok THEN fail
                      ELSE [status      |-> "ok",
                            offset      |-> off + fsize,
                            packet_data |-> put(pd, row.name, vals),
                            records     |-> Append(recs,
                                Record(row.name, fsize, vals, row.type, Absent,
                                       None, ne, NoneV))]
        ELSE IF row.is_bitfield
        THEN IF fsize < 0 THEN fail
             ELSE LET chunk == Slice(pl, off, off + fsize)
                      bits  == FormatBits(from_bytes(chunk), fsize * 8)
                      val   == ListV([b \in 1..Len(bits) |-> IntV(bits[b])])
                  IN  [status      |-> "ok",
                       offset      |-> off + fsize,
                       packet_data |-> put(pd, row.name, val),
                       records     |-> Append(recs,
                           Record(row.name, fsize, val, row.type, row.size_field,
                                  SumSeq(bits), None, val))]
        ELSE LET chunk == Slice(pl, off, off + fsize)
                 d     == decode_scalar(row.type.tok, chunk)
             IN  IF ~d.ok THEN fail
                 ELSE [status      |-> "ok",
                       offset      |-> off + fsize,
                       packet_data |-> put(pd, row.name, d.v),
                       records     |-> Append(recs,
                           Record(row.name, fsize, d.v, row.type, row.size_field,
                                  None, None, NoneV))]

-----------------------------------------------------------------------------
(* The capture and the protocol texts the decoder is run on *)

\* the well-known UDP port (line 224)
Port == 10000

Header(udp, sport, dport, src, dst) ==
    [udp |-> udp, sport |-> sport, dport |-> dport, src |-> src, dst |-> dst]

Headers ==
    { Header(TRUE, 4000, Port, "10.0.0.1", "10.0.0.9"),
      Header(TRUE, Port, 4000, "10.0.0.9", "10.0.0.1"),
      Header(TRUE, Port, Port, "10.0.0.2", "10.0.0.9"),
      Header(TRUE, 4000, 53,   "10.0.0.1", "10.0.0.9"),
      Header(FALSE, 0, 0,      "10.0.0.1", "10.0.0.9") }

\* line 224
is_protocol_packet(h) == h.udp /\ (h.dport = Port \/ h.sport = Port)

\* a faulty variant: the destination address whatever the ports
endpoint_always_dst(h) == h.dst

\* line 226
endpoint_of(h) == IF h.dport = Port THEN h.src ELSE h.dst

RECURSIVE SeqsUpTo(_, _)
SeqsUpTo(S, n) ==
    IF n = 0 THEN {<<>>}
    ELSE LET shorter == SeqsUpTo(S, n - 1)
         IN  shorter \cup { Append(q, x) : q \in shorter, x \in S }

Payloads == SeqsUpTo(ByteAlphabet, MaxPayload)

ProtocolTexts ==
    { << <<"3">>, <<"len", "1", "int">>, <<"msg", "0", "char", "len">>, <<"crc", "1", "int">> >>,
      << <<"3">>, <<"id", "1", "int">>, <<"msg", "0", "char">>, <<"crc", "1", "int">> >>,
      << <<"2">>, <<"msg", "0", "char", "crc">>, <<"crc", "1", "int">> >>,
      << <<"3">>, <<"txt", "1", "Char">>, <<"msg", "0", "int", "txt">>, <<"crc", "1", "INT">> >>,
      << <<"3">>, <<"flg", "1", "bitfield">>, <<"msg", "0", "char", "flg">>, <<"crc", "1", "int">> >>,
      << <<"2">>, <<"msg", "0", "char", "nosuch">>, <<"crc", "2", "int">> >>,
      << <<"2">>, <<"id", "2", "int">>, <<"tag", "1", "char">> >>,
      << <<"2">>, <<"arr", "2", "array", "int", "2">>, <<"msg", "0", "char", "arr">> >>,
      << <<"2">>, <<"loc", "2", "Point">>, <<"msg", "0", "short">> >>,
      << <<"3">>, <<"a", "0", "char">>, <<"b", "0", "Bit">>, <<"c", "1", "bool">> >>,
      << <<"2">>, <<"hx", "1", "short">>, <<"msg", "0", "char", "hx">> >>,
      << <<"2">>, <<"len", "1", "int">>, <<"f", "0", "float", "len">> >> }

Schemas ==
    { load_protocol_definitions(t, custom_types).rows :
        t \in { u \in ProtocolTexts : load_protocol_definitions(u, custom_types).ok } }

-----------------------------------------------------------------------------
(* parse_pcap_with_ip as a state machine *)

EmptyDict == [nm \in {} |-> NoneV]

Init ==
    /\ protocol_df \in Schemas
    /\ pc = "capture"
    /\ pkts = 0
    /\ payload = <<>>
    /\ src_ip = ""
    /\ pkt = NoPacket
    /\ idx = 1
    /\ offset = 0
    /\ packet_data = EmptyDict
    /\ records = <<>>
    /\ data = EmptyDict
    /\ field_name = ""
    /\ stats = <<>>
    /\ seg_dict = <<>>
    /\ DpiIdle
    /\ CmpIdle

\* a datagram of the protocol is taken from the capture (lines 223-230)
TakePacket ==
    /\ pc = "capture"
    /\ pkts < MaxPackets
    /\ \E h \in Headers, pl \in Payloads :
        /\ is_protocol_packet(h)
        /\ payload' = pl
        /\ src_ip' = endpoint_of(h)
        /\ pkt' = h
    /\ idx' = 1
    /\ offset' = 0
    /\ packet_data' = EmptyDict
    /\ records' = <<>>
    /\ pc' = "fields"
    /\ UNCHANGED <<protocol_df, pkts, data>>
    /\ UNCHANGED segVars
    /\ UNCHANGED dpiVars
    /\ UNCHANGED cmpVars

\* any other packet of the capture is passed over (line 224)
SkipPacket ==
    /\ pc = "capture"
    /\ pkts < MaxPackets
    /\ \E h \in Headers : ~is_protocol_packet(h)
    /\ pkts' = pkts + 1
    /\ UNCHANGED <<protocol_df, pc, payload, src_ip, pkt, idx, offset, packet_data,
                   records, data>>
    /\ UNCHANGED segVars
    /\ UNCHANGED dpiVars
    /\ UNCHANGED cmpVars

\* one pass of the loop over the rows (lines 232-330)
DecodeField ==
    /\ pc = "fields"
    /\ LET r == decode_field(protocol_df, idx, payload, offset, packet_data, records)
       IN  /\ offset' = r.offset
           /\ packet_data' = r.packet_data
           /\ records' = r.records
           /\ idx' = IF r.status = "ok" THEN idx + 1 ELSE idx
           /\ pc' = IF r.status = "raise" THEN "raised"
                    ELSE IF r.status = "break" \/ idx = Len(protocol_df)
                    THEN "packet_end" ELSE "fields"
    /\ UNCHANGED <<protocol_df, pkts, payload, src_ip, pkt, data>>
    /\ UNCHANGED segVars
    /\ UNCHANGED dpiVars
    /\ UNCHANGED cmpVars

\* the records of the packet are filed under its endpoint (lines 332-333)
store(d, ip, recs) ==
    IF recs = <<>> THEN d
    ELSE [k \in (DOMAIN d) \cup {ip} |->
            IF k = ip THEN (IF ip \in DOMAIN d THEN Append(d[ip], recs) ELSE <<recs>>)
            ELSE d[k]]

EndPacket ==
    /\ pc = "packet_end"
    /\ data' = store(data, src_ip, records)
    /\ pkts' = pkts + 1
    /\ pc' = "capture"
    /\ UNCHANGED <<protocol_df, payload, src_ip, pkt, idx, offset, packet_data, records>>
    /\ UNCHANGED segVars
    /\ UNCHANGED dpiVars
    /\ UNCHANGED cmpVars

\* the capture is exhausted (line 335)
Return ==
    /\ pc = "capture"
    /\ pc' = "returned"
    /\ UNCHANGED <<protocol_df, pkts, payload, src_ip, pkt, idx, offset, packet_data,
                   records, data>>
    /\ UNCHANGED segVars
    /\ UNCHANGED dpiVars
    /\ UNCHANGED cmpVars

Next == TakePacket \/ SkipPacket \/ DecodeField \/ EndPacket \/ Return

Spec == Init /\ [][Next]_vars

-----------------------------------------------------------------------------
(* Properties of the decoder *)

Dynamic(row) == row.size = 0
Decoding == pc \in {"fields", "packet_end"}

\* the bytes decoded before record i of the current packet: the offset at
\* which field i was decoded (offset starts at 0 and grows by each size)
RECURSIVE SizesBefore(_)
SizesBefore(i) == IF i <= 1 THEN 0 ELSE SizesBefore(i - 1) + records[i - 1].size

\* R: the declared sizes of the schema entries strictly after entry i
FixedAfter(i) ==
    SumSeq([j \in 1..(Len(protocol_df) - i) |-> protocol_df[i + j].size])

RemainderAt(i) == Len(payload) - SizesBefore(i) - FixedAfter(i)

\* C1: a dynamic field without a size field is given exactly
\* payloadLength - offset - R, R being the declared sizes of the later entries;
\* the offset of the decoder is the sum of the sizes resolved so far.
C1_DynamicSizeIsRemainder ==
    /\ Decoding => offset = SizesBefore(Len(records) + 1)
    /\ \A i \in 1..Len(records) :
         (Dynamic(protocol_df[i]) /\ protocol_df[i].size_field = "")
            => records[i].size = RemainderAt(i)

\* a dynamic field without size field decoded in the middle of a packet
C1_Witness ==
    \E i \in 1..Len(records) :
        /\ Dynamic(protocol_df[i]) /\ protocol_df[i].size_field = ""
        /\ SizesBefore(i) > 0 /\ FixedAfter(i) > 0
        /\ records[i].size > 0
        /\ records[i].size = RemainderAt(i)

\* the records before record i that carry the name nm
Earlier(i, nm) == { j \in 1..(i - 1) : records[j].field_name = nm }
LastOf(S) == CHOOSE j \in S : \A k \in S : k <= j

\* the integer the size field of row i supplies, if any: [ok, n]
Supplied(i) ==
    LET e == Earlier(i, protocol_df[i].size_field)
    IN  IF e = {} THEN [ok |-> FALSE, n |-> 0]
        ELSE int_of(records[LastOf(e)].value)

\* C2: a dynamic field with a size field takes the integer its size field
\* decoded to earlier in the packet, and the remaining-bytes value in every
\* other case; the decoder stops at such a field only on a supplied integer.
C2_SizeFieldOrRemainder ==
    /\ \A i \in 1..Len(records) :
         (Dynamic(protocol_df[i]) /\ protocol_df[i].size_field # "")
            => records[i].size =
                 (IF Supplied(i).ok THEN Supplied(i).n ELSE RemainderAt(i))
    /\ (pc = "packet_end" /\ Len(records) < Len(protocol_df)
          /\ Dynamic(protocol_df[Len(records) + 1]))
         => /\ protocol_df[Len(records) + 1].size_field # ""
            /\ Supplied(Len(records) + 1).ok
            /\ offset + Supplied(Len(records) + 1).n > Len(payload)

\* a size taken from the size field, different from the remaining bytes
C2_Witness ==
    \E i \in 1..Len(records) :
        /\ Dynamic(protocol_df[i]) /\ protocol_df[i].size_field # ""
        /\ Supplied(i).ok
        /\ Supplied(i).n # RemainderAt(i)
        /\ records[i].size = Supplied(i).n

\* C3: a field that does not fit stops the decoding of its packet and nothing
\* else: the records so far stay, none is added, the capture goes on, and
\* the packet is filed under its endpoint iff it has a record.
C3_Step ==
    /\ (pc = "fields" /\
        offset + resolve_size(protocol_df, idx, Len(payload), offset, packet_data)
            > Len(payload))
         => /\ records' = records
            /\ pc' = "packet_end"
            /\ data' = data
    /\ pc = "packet_end"
         => /\ pc' = "capture"
            /\ records # <<>> =>
                 /\ src_ip \in DOMAIN data'
                 /\ data'[src_ip] =
                      (IF src_ip \in DOMAIN data THEN data[src_ip] ELSE <<>>)
                         \o <<records>>
                 /\ \A k \in DOMAIN data : k # src_ip => data'[k] = data[k]
            /\ records = <<>> => data' = data

C3_StopsAtShortField == [][C3_Step]_vars

\* a packet cut short after its first record, filed behind an earlier packet
C3_Witness ==
    /\ pc = "capture"
    /\ 0 < Len(records) /\ Len(records) < Len(protocol_df)
    /\ idx = Len(records) + 1
    /\ offset + resolve_size(protocol_df, idx, Len(payload), offset, packet_data)
         > Len(payload)
    /\ src_ip \in DOMAIN data
    /\ Len(data[src_ip]) = 2
    /\ data[src_ip][2] = records
    /\ Len(data[src_ip][1]) = Len(protocol_df)

-----------------------------------------------------------------------------
(* Decoding a whole packet, and the occurrences of one field *)

\* one turn of the loop over the rows, from the outcome of the turns before
decode_row(df, i, pl, prev) ==
    IF prev.status # "ok" THEN prev
    ELSE decode_field(df, i, pl, prev.offset, prev.packet_data, prev.records)

\* the loop over the rows of one packet: [status, offset, packet_data, records]
decode_packet(df, pl) ==
    LET after[i \in 0..Len(df)] ==
            IF i = 0
            THEN [status |-> "ok", offset |-> 0, packet_data |-> EmptyDict,
                  records |-> <<>>]
            ELSE decode_row(df, i, pl, after[i - 1])
    IN  after[Len(df)]

\* field_stats[name] of generate_dpi, fed one packet (lines 461-464)
occurrences(recs, name) == SelectSeq(recs, LAMBDA r : r.field_name = name)

-----------------------------------------------------------------------------
(* Arithmetic on the numbers of numpy *)

\* float(x): [ok, x]; ok = FALSE is TypeError or ValueError.  Text is read
\* in its integer syntax (the texts of the model hold no ".", "e", "inf",
\* "nan"); a float is read exactly when it is integral.
float_of(v) ==
    CASE v.k \in {"int", "bool"} -> [ok |-> TRUE, x |-> Num(v.n)]
      [] v.k = "float" -> [ok |-> TRUE,
                           x  |-> IF FloatIsNaN(v.n) THEN NaN ELSE Num(FloatTrunc(v.n))]
      [] v.k = "str"   -> LET r == int_of_text(v.s)
                          IN  [ok |-> r.ok, x |-> Num(r.n)]
      [] OTHER         -> [ok |-> FALSE, x |-> Num(0)]

\* a - b
NumSub(a, b) == IF a.nan \/ b.nan THEN NaN ELSE Num(a.n - b.n)

\* a == c for an integer c
NumEq(a, c) == ~a.nan /\ a.n = c

-----------------------------------------------------------------------------
(* segment_stats *)

\* np.argsort: position of index i among the values, not-a-number last,
\* equal values in the order of their indices (numpy leaves the order of
\* equal values of a long array open; the segments hold the same indices)
Before(values, i, j) ==
    LET a == values[i]
        b == values[j]
    IN  IF a.nan # b.nan THEN b.nan
        ELSE IF ~a.nan /\ a.n # b.n THEN a.n < b.n
        ELSE i < j

argsort(values) ==
    LET n    == Len(values)
        rank == Tabulate(n, LAMBDA i :
                    Cardinality({ j \in 1..n : Before(values, j, i) }) + 1)
    IN  Tabulate(n, LAMBDA k : CHOOSE i \in 1..n : rank[i] = k)

\* a faulty variant: np.argmin in place of np.argmax
argmin(diffs) ==
    IF \E k \in 1..Len(diffs) : diffs[k].nan
    THEN CHOOSE k \in 1..Len(diffs) :
            diffs[k].nan /\ \A m \in 1..(k - 1) : ~diffs[m].nan
    ELSE CHOOSE k \in 1..Len(diffs) :
            /\ \A m \in 1..Len(diffs) : diffs[m].n >= diffs[k].n
            /\ \A m \in 1..(k - 1) : diffs[m].n > diffs[k].n

\* np.argmax(diffs): the first not-a-number, else the first largest (1-based)
argmax(diffs) ==
    IF \E k \in 1..Len(diffs) : diffs[k].nan
    THEN CHOOSE k \in 1..Len(diffs) :
            diffs[k].nan /\ \A m \in 1..(k - 1) : ~diffs[m].nan
    ELSE CHOOSE k \in 1..Len(diffs) :
            /\ \A m \in 1..Len(diffs) : diffs[m].n <= diffs[k].n
            /\ \A m \in 1..(k - 1) : diffs[m].n < diffs[k].n

\* a faulty variant: the threshold taken as 1% of the gap
below_one_percent_of_gap(gap, range) ==
    ~gap.nan /\ ~range.nan /\ 100 * range.n < gap.n

\* a faulty variant: gap <= 0.01 * overall_range
at_most_one_percent(gap, range) ==
    ~gap.nan /\ ~range.nan /\ 100 * gap.n <= range.n

\* gap < 0.01 * overall_range (exact on the integer axes of the model)
below_one_percent(gap, range) ==
    ~gap.nan /\ ~range.nan /\ 100 * gap.n < range.n

\* int(round((m / n) * 100)) in double arithmetic: round half to even on
\* the product, which is the exact one but for two quotients (n up to 400):
\* 0.575 * 100 is 57.49999999999999 and 0.545 * 100 is 54.50000000000001
round_percent(m, n) ==
    LET q == (100 * m) \div n
        r == (100 * m) % n
    IN  IF 40 * m = 23 * n THEN q
        ELSE IF 200 * m = 109 * n THEN q + 1
        ELSE IF 2 * r < n THEN q
        ELSE IF 2 * r > n THEN q + 1
        ELSE IF q % 2 = 0 THEN q ELSE q + 1

percent_label(p) == ToString(p) \o "%"

\* a faulty variant: list(range(1, n + 1))
range_list_from_one(n) == Tabulate(n, LAMBDA i : i)

\* list(range(n))
range_list(n) == Tabulate(n, LAMBDA i : i - 1)

\* the clustering axis (lines 405-416)
sizes_axis(st) == Tabulate(Len(st), LAMBDA i : Num(st[i].size))

axis(st) ==
    LET t == st[1].field_type
    IN  IF ~t.arr /\ lower(t.tok) \in {"int", "float", "double", "long"}
        THEN LET f == Tabulate(Len(st), LAMBDA i : float_of(st[i].value))
             IN  IF \E i \in 1..Len(st) : ~f[i].ok THEN sizes_axis(st)
                 ELSE IF \A i \in 1..Len(st) : NumEq(f[i].x, 0) THEN sizes_axis(st)
                 ELSE Tabulate(Len(st), LAMBDA i : f[i].x)
        ELSE sizes_axis(st)

\* dict assignment d[key] = val on a list of <<key, value>> pairs
dict_set(d, key, val) ==
    IF \E i \in 1..Len(d) : d[i][1] = key
    THEN [i \in 1..Len(d) |-> IF d[i][1] = key THEN <<key, val>> ELSE d[i]]
    ELSE Append(d, <<key, val>>)

\* segment_stats (lines 404-442), step by step; indices are the 0-based
\* ones of the code

\* {"100%": list(range(len(stats)))}
whole_segment(n) == << <<"100%", range_list(n)>> >>

\* lines 430-442: the two sides of the gap, the larger one with its label
split_at(n, sorted_indices, max_gap_index) ==
    LET main == IF 2 * max_gap_index >= n
                THEN Tabulate(max_gap_index, LAMBDA k : sorted_indices[k] - 1)
                ELSE Tabulate(n - max_gap_index, LAMBDA k :
                         sorted_indices[max_gap_index + k] - 1)
    IN  dict_set(<< <<percent_label(round_percent(Len(main), n)), main>> >>,
                 "100%", range_list(n))

\* lines 426-429
split_gap(n, sorted_indices, diffs, overall_range, max_gap_index) ==
    IF below_one_percent(diffs[max_gap_index], overall_range)
    THEN whole_segment(n)
    ELSE split_at(n, sorted_indices, max_gap_index)

\* lines 422-426
split_sorted(n, sorted_indices, sorted_values) ==
    LET overall_range == NumSub(sorted_values[n], sorted_values[1])
    IN  IF NumEq(overall_range, 0) THEN whole_segment(n)
        ELSE split_gap(n, sorted_indices,
                       Tabulate(n - 1, LAMBDA k :
                           NumSub(sorted_values[k + 1], sorted_values[k])),
                       overall_range,
                       argmax(Tabulate(n - 1, LAMBDA k :
                           NumSub(sorted_values[k + 1], sorted_values[k]))))

\* lines 420-421
split_values(n, values, sorted_indices) ==
    split_sorted(n, sorted_indices,
                 Tabulate(n, LAMBDA k : values[sorted_indices[k]]))

\* lines 418-420
segment_values(n, values) ==
    IF n < 2 THEN whole_segment(n)
    ELSE split_values(n, values, argsort(values))

segment_stats(st) == segment_values(Len(st), axis(st))

-----------------------------------------------------------------------------
(* The segmentation engine on the occurrences of one field *)

SegBytes == {0, 1, 9}

SegPayloads ==
    {<<>>} \cup { <<a>> : a \in SegBytes } \cup { <<a, b>> : a, b \in SegBytes }
    \cup { <<0, 0, 0, 0>>, <<64, 0, 0, 0>>, <<65, 16, 0, 0>>, <<127, 192, 0, 0>> }

SegTexts ==
    { << <<"1">>, <<"v", "1", "int">> >>,
      << <<"1">>, <<"m", "0", "char">> >>,
      << <<"1">>, <<"k", "1", "long">> >>,
      << <<"1">>, <<"b", "1", "bitfield">> >>,
      << <<"1">>, <<"s", "1", "short">> >>,
      << <<"1">>, <<"f", "4", "float">> >>,
      << <<"2">>, <<"n", "1", "int">>, <<"m", "0", "char", "n">> >>,
      << <<"2">>, <<"x", "1", "int">>, <<"x", "0", "char">> >> }

SegSchemas ==
    { load_protocol_definitions(t, custom_types).rows :
        t \in { u \in SegTexts : load_protocol_definitions(u, custom_types).ok } }

\* the field whose occurrences are segmented: the last one of the schema
SegField(df) == df[Len(df)].name

\* what the packets of an endpoint contribute to field_stats[SegField]:
\* per schema, the occurrence lists of the decodable payloads
SegPool ==
    [ df \in SegSchemas |->
        { occurrences(decode_packet(df, pl).records, SegField(df)) :
            pl \in { q \in SegPayloads : decode_packet(df, q).status # "raise" } }
        \ {<<>>} ]

SegInit ==
    /\ protocol_df \in SegSchemas
    /\ field_name = SegField(protocol_df)
    /\ pc = "collect"
    /\ stats = <<>>
    /\ seg_dict = <<>>
    /\ pkts = 0 /\ payload = <<>> /\ src_ip = "" /\ pkt = NoPacket /\ idx = 1
    /\ offset = 0
    /\ packet_data = EmptyDict /\ records = <<>> /\ data = EmptyDict
    /\ DpiIdle
    /\ CmpIdle

\* one more packet of the endpoint is decoded; its records of the field
\* join the occurrences (lines 462-464)
SegCollect ==
    /\ pc = "collect"
    /\ \E o \in SegPool[protocol_df] :
         /\ Len(stats) + Len(o) <= MaxOcc
         /\ stats' = stats \o o
    /\ UNCHANGED <<protocol_df, pc, data, field_name, seg_dict>>
    /\ UNCHANGED decVars
    /\ UNCHANGED dpiVars
    /\ UNCHANGED cmpVars

\* a long capture: one-byte integers 0, 1, 2, ... in turn, or the value 1
\* again and again with the value 9 at the end
IsRamp(st) == \A i \in 1..Len(st) : st[i].value = IntV(i - 1)
IsBlock(st) == \A i \in 1..Len(st) : st[i].value = IntV(1)

\* or, in a capture of up to MaxSplit packets, the value 1 some times and
\* then the value 9 some times
MaxSplit == 40

IsSplit(st) ==
    \E k \in 1..(Len(st) - 1) :
        \A i \in 1..Len(st) : st[i].value = IntV(IF i <= k THEN 1 ELSE 9)

BulkBytes(st) ==
    (IF IsRamp(st) THEN {Len(st)} ELSE {})
    \cup (IF IsBlock(st) THEN {1, 9} ELSE {})
    \cup (IF Len(st) < MaxSplit /\ IsSplit(st) THEN {9} ELSE {})

SegCollectBulk ==
    /\ pc = "collect"
    /\ Len(protocol_df) = 1
    /\ protocol_df[1].type = Plain("int") /\ protocol_df[1].size = 1
    /\ Len(stats) < MaxBulk
    /\ \E b \in BulkBytes(stats) :
         stats' = stats \o occurrences(decode_packet(protocol_df, <<b>>).records,
                                       field_name)
    /\ UNCHANGED <<protocol_df, pc, data, field_name, seg_dict>>
    /\ UNCHANGED decVars
    /\ UNCHANGED dpiVars
    /\ UNCHANGED cmpVars

\* seg_dict = segment_stats(stats) (line 468)
SegSegment ==
    /\ pc = "collect"
    /\ stats # <<>>
    /\ seg_dict' = segment_stats(stats)
    /\ pc' = "segmented"
    /\ UNCHANGED <<protocol_df, data, field_name, stats>>
    /\ UNCHANGED decVars
    /\ UNCHANGED dpiVars
    /\ UNCHANGED cmpVars

SegNext == SegCollect \/ SegCollectBulk \/ SegSegment

SpecSeg == SegInit /\ [][SegNext]_vars

-----------------------------------------------------------------------------
(* extract_aggregated_features *)

\* a quotient of integers, kept exact: the means and variances of numpy
Ratio(num, den) == [nan |-> FALSE, num |-> num, den |-> den]
RatioNaN        == [nan |-> TRUE,  num |-> 0,   den |-> 1]

AnyNaN(xs) == \E i \in 1..Len(xs) : xs[i].nan

IntsOf(xs) == Tabulate(Len(xs), LAMBDA i : xs[i].n)
SquaresOf(xs) == Tabulate(Len(xs), LAMBDA i : xs[i].n * xs[i].n)

RECURSIVE Flatten(_)
Flatten(ss) == IF ss = <<>> THEN <<>> ELSE ss[1] \o Flatten(Tail(ss))

\* try: float(x) / except: 0.0
or_zero(r) == IF r.ok THEN r.x ELSE Num(0)

float_or_zero(v) == or_zero(float_of(v))

\* what one occurrence adds to numeric_vals (lines 353-371)
numeric_vals_of(s) ==
    IF s.value.k = "list"
    THEN Tabulate(Len(s.value.l), LAMBDA k : float_or_zero(s.value.l[k]))
    ELSE IF /\ ~s.field_type.arr
            /\ lower(s.field_type.tok) \in {"int", "float", "double", "long", "short"}
         THEN <<float_or_zero(s.value)>>
         ELSE <<Num(0)>>

\* x.mean(), x.std() (kept as its square), x.min(), x.max() of a numpy
\* array, 0.0 for an empty one; not-a-number spreads to all four
np_mean(xs) ==
    IF xs = <<>> THEN Ratio(0, 1)
    ELSE IF AnyNaN(xs) THEN RatioNaN
    ELSE Ratio(SumSeq(IntsOf(xs)), Len(xs))

np_var(xs) ==
    IF xs = <<>> THEN Ratio(0, 1)
    ELSE IF AnyNaN(xs) THEN RatioNaN
    ELSE Ratio(Len(xs) * SumSeq(SquaresOf(xs)) - SumSeq(IntsOf(xs)) * SumSeq(IntsOf(xs)),
               Len(xs) * Len(xs))

np_min(xs) ==
    IF xs = <<>> THEN Num(0)
    ELSE IF AnyNaN(xs) THEN NaN
    ELSE xs[CHOOSE i \in 1..Len(xs) : \A j \in 1..Len(xs) : xs[i].n <= xs[j].n]

np_max(xs) ==
    IF xs = <<>> THEN Num(0)
    ELSE IF AnyNaN(xs) THEN NaN
    ELSE xs[CHOOSE i \in 1..Len(xs) : \A j \in 1..Len(xs) : xs[j].n <= xs[i].n]

\* the returned dictionary (lines 375-385)
aggregate(sizes, numeric_vals) ==
    [count      |-> Len(sizes),
     mean_size  |-> np_mean(sizes),
     std_size   |-> np_var(sizes),
     min_size   |-> np_min(sizes),
     max_size   |-> np_max(sizes),
     mean_value |-> np_mean(numeric_vals),
     std_value  |-> np_var(numeric_vals),
     min_value  |-> np_min(numeric_vals),
     max_value  |-> np_max(numeric_vals)]

extract_aggregated_features(st) ==
    aggregate(Tabulate(Len(st), LAMBDA i : Num(st[i].size)),
              Flatten(Tabulate(Len(st), LAMBDA i : numeric_vals_of(st[i]))))

create_feature_vector(features) ==
    <<Ratio(features.count, 1), features.mean_size, features.std_size,
      features.min_size, features.max_size, features.mean_value,
      features.std_value, features.min_value, features.max_value>>

-----------------------------------------------------------------------------
(* pandas Series.mode()[0] on the declared types *)

\* the type tokens of the model in the order of Python's str comparison
UpperTokens == <<"ARRAY", "BITFIELD", "Bit", "Char", "INT">>
LowerTokens == <<"bit", "bitfield", "bool", "char", "double", "float", "int",
                 "long", "nosuch", "short", "unknown">>

token_rank(tok) ==
    IF \E i \in 1..Len(UpperTokens) : UpperTokens[i] = tok
    THEN CHOOSE i \in 1..Len(UpperTokens) : UpperTokens[i] = tok
    ELSE Len(UpperTokens) + (CHOOSE i \in 1..Len(LowerTokens) : LowerTokens[i] = tok)

\* "array of ..." sorts after the capitalized tokens and before the others
type_rank(t) ==
    IF t.arr THEN 100 + token_rank(t.tok)
    ELSE IF token_rank(t.tok) <= Len(UpperTokens) THEN token_rank(t.tok)
    ELSE 200 + token_rank(t.tok)

types_of(st) == Tabulate(Len(st), LAMBDA i : st[i].field_type)

\* the most frequent type; of several, the first in sorted order
most_frequent(types, seen) ==
    LET best == { t \in seen : \A u \in seen :
                    Cardinality({ i \in 1..Len(types) : types[i] = u })
                      <= Cardinality({ i \in 1..Len(types) : types[i] = t }) }
    IN  CHOOSE t \in best : \A u \in best : type_rank(t) <= type_rank(u)

mode(types) ==
    IF types = <<>> THEN Plain("unknown")
    ELSE most_frequent(types, { types[i] : i \in 1..Len(types) })

-----------------------------------------------------------------------------
(* generate_dpi: the descriptor of one field in one segment *)

\* a number, a list of numbers or None, as the descriptor holds them
DNum(x)  == [k |-> "num",  x |-> x,      l |-> <<>>]
DList(l) == [k |-> "list", x |-> Num(0), l |-> l]
DNull    == [k |-> "null", x |-> Num(0), l |-> <<>>]

\* a field name or None
NoName     == [some |-> FALSE, name |-> ""]
Name(nm)   == [some |-> TRUE,  name |-> nm]

\* the schema lookup names a size field (lines 486-487)
has_size_field(df, name) == protocol_mapping(df)[name] # ""

\* a faulty variant: the equal sizes looked at before the size field
is_dynamic_array_sizes_first(df, name, features, o) ==
    IF features.min_size = features.max_size THEN FALSE
    ELSE IF has_size_field(df, name) THEN TRUE
    ELSE o.is_dynamic = 1

\* lines 483-491
is_dynamic_array(df, name, features, o) ==
    IF has_size_field(df, name) THEN TRUE
    ELSE IF features.min_size = features.max_size THEN FALSE
    ELSE o.is_dynamic = 1

\* lines 498-505
or_observed(pred, observed) == IF pred.nan THEN observed ELSE pred

\* int(round(a / b)) for b > 0: round half to even
round_ratio(a, b) ==
    LET q == a \div b
        r == a % b
    IN  IF 2 * r < b THEN q
        ELSE IF 2 * r > b THEN q + 1
        ELSE IF q % 2 = 0 THEN q ELSE q + 1

\* sum(s['value']) of a list of numbers: [ok, n]; text in the list is the
\* TypeError of sum, not-a-number ends in the ValueError of round
sum_of(l) ==
    IF \E i \in 1..Len(l) : ~(l[i].k \in {"int", "bool", "float"}) \/ float_of(l[i]).x.nan
    THEN [ok |-> FALSE, n |-> 0]
    ELSE [ok |-> TRUE, n |-> SumSeq(Tabulate(Len(l), LAMBDA i : float_of(l[i]).x.n))]

\* int(round(np.mean([sum(s['value']) for s in alt_stats if list]))): [ok, v];
\* the mean of no list is not-a-number, which round refuses
mean_of_sums(sums) ==
    IF sums = <<>> \/ \E i \in 1..Len(sums) : ~sums[i].ok
    THEN [ok |-> FALSE, v |-> None]
    ELSE [ok |-> TRUE,
          v  |-> round_ratio(SumSeq(Tabulate(Len(sums), LAMBDA i : sums[i].n)),
                             Len(sums))]

lists_of(alt) == SelectSeq(alt, LAMBDA s : s.value.k = "list")

set_bits(lists) == Tabulate(Len(lists), LAMBDA i : sum_of(lists[i].value.l))

\* lines 514-521: [ok, v]
bit_count(agg, alt, o) ==
    IF agg.arr \/ lower(agg.tok) # "bitfield" THEN [ok |-> TRUE, v |-> None]
    ELSE IF ~o.bit_count.nan THEN [ok |-> TRUE, v |-> o.bit_count.n]
    ELSE mean_of_sums(set_bits(lists_of(alt)))

\* lines 528-537
scalar_dpi(df, name, features, agg, o, bc) ==
    [is_dynamic_array    |-> is_dynamic_array(df, name, features, o),
     min_size            |-> DNum(or_observed(o.min_size, features.min_size)),
     max_size            |-> DNum(or_observed(o.max_size, features.max_size)),
     min_value           |-> DNum(or_observed(o.min_value, features.min_value)),
     max_value           |-> DNum(or_observed(o.max_value, features.max_value)),
     size_defining_field |-> IF has_size_field(df, name)
                             THEN Name(protocol_mapping(df)[name]) ELSE NoName,
     field_type          |-> IF agg # Plain("bitfield") THEN agg
                             ELSE Plain(o.field_type),
     bitfields_count     |-> bc]

\* protocol_df[protocol_df['name'] == field_name].iloc[0]
proto_row(df, name) ==
    df[CHOOSE i \in 1..Len(df) :
         df[i].name = name /\ \A j \in 1..(i - 1) : df[j].name # name]

\* a faulty variant: the quotient rounded up
floor_div_up(x, n) == IF x.nan THEN NaN ELSE Num(0 - ((0 - x.n) \div n))

\* x // n on floats
floor_div(x, n) == IF x.nan THEN NaN ELSE Num(x.n \div n)

\* rec['value'][i]: [ok, v]; IndexError or TypeError otherwise
element_at(v, i) ==
    IF v.k = "list" /\ i < Len(v.l) THEN [ok |-> TRUE, v |-> v.l[i + 1]]
    ELSE IF v.k = "str" /\ i < Len(v.s) THEN [ok |-> TRUE, v |-> StrV(<<v.s[i + 1]>>)]
    ELSE [ok |-> FALSE, v |-> NoneV]

\* a < b on text
StrLess(a, b) ==
    \/ \E k \in 1..Min2(Len(a), Len(b)) :
          a[k] < b[k] /\ \A j \in 1..(k - 1) : a[j] = b[j]
    \/ Len(a) < Len(b) /\ \A j \in 1..Len(a) : a[j] = b[j]

\* min(lst) and max(lst) on numbers: the first element that no later one
\* is smaller (larger) than; a comparison with not-a-number is false
RECURSIVE fold_min(_, _)
fold_min(xs, m) ==
    IF xs = <<>> THEN m
    ELSE fold_min(Tail(xs), IF ~xs[1].nan /\ ~m.nan /\ xs[1].n < m.n THEN xs[1] ELSE m)

RECURSIVE fold_max(_, _)
fold_max(xs, m) ==
    IF xs = <<>> THEN m
    ELSE fold_max(Tail(xs), IF ~xs[1].nan /\ ~m.nan /\ xs[1].n > m.n THEN xs[1] ELSE m)

AllNumbers(vs) == \A i \in 1..Len(vs) : vs[i].k \in {"int", "bool", "float"}
AllText(vs)    == \A i \in 1..Len(vs) : vs[i].k = "str"

numbers_of(vs) == Tabulate(Len(vs), LAMBDA i : float_of(vs[i]).x)

text_min(vs) ==
    vs[CHOOSE i \in 1..Len(vs) : \A j \in 1..Len(vs) : ~StrLess(vs[j].s, vs[i].s)]

text_max(vs) ==
    vs[CHOOSE i \in 1..Len(vs) : \A j \in 1..Len(vs) : ~StrLess(vs[i].s, vs[j].s)]

\* a faulty variant: the element of the first occurrence, not the least
float_first(vs) == float_of(vs[1])

\* float(min(lst)), float(max(lst)) of a non-empty list: [ok, x]; TypeError
\* on mixed or None elements, ValueError on text that is no number
float_min(vs) ==
    IF AllNumbers(vs) THEN [ok |-> TRUE, x |-> fold_min(Tail(numbers_of(vs)), numbers_of(vs)[1])]
    ELSE IF AllText(vs) THEN float_of(text_min(vs))
    ELSE [ok |-> FALSE, x |-> Num(0)]

float_max(vs) ==
    IF AllNumbers(vs) THEN [ok |-> TRUE, x |-> fold_max(Tail(numbers_of(vs)), numbers_of(vs)[1])]
    ELSE IF AllText(vs) THEN float_of(text_max(vs))
    ELSE [ok |-> FALSE, x |-> Num(0)]

\* value_lists (lines 560-563): per element index, per record, [ok, v]
value_lists(alt, nelems) ==
    Tabulate(nelems, LAMBDA i :
        Tabulate(Len(alt), LAMBDA r : element_at(alt[r].value, i - 1)))

values_of(column) == Tabulate(Len(column), LAMBDA r : column[r].v)

\* lines 564-574, once the value lists are built: [ok, dpi]
array_values(d, nelems, numeric, columns) ==
    LET sized == [d EXCEPT !.min_size = DList(Tabulate(nelems, LAMBDA i :
                                                floor_div(d.min_size.x, nelems))),
                           !.max_size = DList(Tabulate(nelems, LAMBDA i :
                                                floor_div(d.max_size.x, nelems)))]
    IN  IF \E i \in 1..nelems : \E r \in 1..Len(columns[i]) : ~columns[i][r].ok
        THEN [ok |-> FALSE, dpi |-> d]
        ELSE IF ~numeric
        THEN [ok |-> TRUE, dpi |-> [sized EXCEPT !.min_value = DNull, !.max_value = DNull]]
        ELSE IF \E i \in 1..nelems : \/ ~float_min(values_of(columns[i])).ok
                                     \/ ~float_max(values_of(columns[i])).ok
        THEN [ok |-> FALSE, dpi |-> d]
        ELSE [ok |-> TRUE,
              dpi |-> [sized EXCEPT
                 !.min_value = DList(Tabulate(nelems, LAMBDA i :
                                       float_min(values_of(columns[i])).x)),
                 !.max_value = DList(Tabulate(nelems, LAMBDA i :
                                       float_max(values_of(columns[i])).x))]]

\* lines 541-574: the override for a fixed-length array: [ok, dpi]
array_dpi(row, alt, d) ==
    IF row.type.arr /\ row.num_elements > 0
    THEN array_values(d, row.num_elements,
                      lower(row.type.tok) \in {"int", "float", "double", "long"},
                      value_lists(alt, row.num_elements))
    ELSE [ok |-> TRUE, dpi |-> d]

\* lines 576-580
null_non_numeric(d) ==
    IF lower(d.field_type.tok) \in {"int", "float", "double", "long"} THEN d
    ELSE [d EXCEPT !.min_value = DNull, !.max_value = DNull]

\* round(float(v), 3): the numbers of the model are whole or not-a-number,
\* which rounding to three digits leaves as they are
round3(v) == v

\* lines 583-597
rounded(d) ==
    [d EXCEPT !.min_size  = round3(d.min_size),  !.max_size  = round3(d.max_size),
              !.min_value = round3(d.min_value), !.max_value = round3(d.max_value)]

\* lines 576-599 on the outcome of the array override
finish(r) ==
    IF ~r.ok THEN r ELSE [ok |-> TRUE, dpi |-> rounded(null_non_numeric(r.dpi))]

\* lines 514-599 once the bit count is known
describe_bits(df, name, alt, o, features, agg, bc) ==
    IF ~bc.ok THEN [ok |-> FALSE, dpi |-> DNull]
    ELSE finish(array_dpi(proto_row(df, name), alt,
                          scalar_dpi(df, name, features, agg, o, bc.v)))

\* lines 483-599 once the features and the type mode are known
describe(df, name, alt, o, features, agg) ==
    describe_bits(df, name, alt, o, features, agg, bit_count(agg, alt, o))

\* the body of the loop over the segments (lines 470-599), the models
\* answering o: [ok, dpi]; ok = FALSE is an exception
field_descriptor(df, name, st, alt, o) ==
    describe(df, name, alt, o, extract_aggregated_features(alt), mode(types_of(st)))

\* what is kept of one turn of the loop: the descriptor, with the features
\* and the occurrences it was made from
Entry(name, label, alt, features, dpi) ==
    [field_name |-> name, label |-> label, alt_stats |-> alt,
     features |-> features, dpi |-> dpi]

-----------------------------------------------------------------------------
(* generate_dpi as a state machine, for the packets of one endpoint *)

\* number of packets of the endpoint
MaxDpiPackets == 2

DpiPayloads ==
    { <<1>>, <<1, 49>>, <<2, 49, 49>>, <<64, 0, 0, 0>>, <<127, 192, 0, 0>> }

DpiTexts ==
    { << <<"2">>, <<"len", "1", "int">>, <<"msg", "0", "char", "len">> >>,
      << <<"1">>, <<"v", "1", "int">> >>,
      << <<"1">>, <<"m", "0", "char">> >>,
      << <<"1">>, <<"f", "4", "float">> >>,
      << <<"1">>, <<"b", "1", "bitfield">> >>,
      << <<"2">>, <<"x", "1", "int">>, <<"x", "0", "char">> >>,
      << <<"1">>, <<"a", "2", "array", "int", "2">> >>,
      << <<"1">>, <<"s", "1", "short">> >>,
      << <<"2">>, <<"x", "1", "int">>, <<"x", "0", "bitfield">> >>,
      << <<"1">>, <<"B", "1", "BITFIELD">> >>,
      << <<"1">>, <<"fa", "4", "array", "float", "1">> >>,
      << <<"1">>, <<"c", "2", "array", "char", "2">> >>,
      << <<"1">>, <<"q", "4", "array", "int", "4">> >> }

DpiSchemas ==
    { load_protocol_definitions(t, custom_types).rows :
        t \in { u \in DpiTexts : load_protocol_definitions(u, custom_types).ok } }

\* the answers of the loaded models: the class of is_dynamic_array, the four
\* regressions, the decoded type label and the bit count
Oracles ==
    [is_dynamic : {0, 1},
     min_size   : {NaN, Num(6)},
     max_size   : {NaN, Num(6)},
     min_value  : {NaN, Num(6)},
     max_value  : {NaN, Num(6)},
     field_type : {"bitfield", "int"},
     bit_count  : {NaN, Num(3)}]

\* the names of the records in the order they first appear, and the
\* occurrences of each (lines 460-464)
first_indices(recs) ==
    SelectSeq(Tabulate(Len(recs), LAMBDA i : i),
              LAMBDA i : \A j \in 1..(i - 1) : recs[j].field_name # recs[i].field_name)

group_by_name(recs, first) ==
    Tabulate(Len(first), LAMBDA k :
        <<recs[first[k]].field_name, occurrences(recs, recs[first[k]].field_name)>>)

DpiInit ==
    /\ protocol_df \in DpiSchemas
    /\ pc = "parse"
    /\ field_name = "" /\ stats = <<>> /\ seg_dict = <<>>
    /\ pkts = 0 /\ payload = <<>> /\ src_ip = "" /\ pkt = NoPacket /\ idx = 1
    /\ offset = 0
    /\ packet_data = EmptyDict /\ records = <<>> /\ data = EmptyDict
    /\ DpiIdle
    /\ CmpIdle

\* parse_pcap_with_ip hands over one more packet of the endpoint: the
\* records decoded before the end of the payload or of the schema
DpiPacket ==
    /\ pc = "parse"
    /\ Len(packets) < MaxDpiPackets
    /\ \E pl \in DpiPayloads :
         LET r == decode_packet(protocol_df, pl)
         IN  /\ r.status # "raise"
             /\ r.records # <<>>
             /\ packets' = Append(packets, r.records)
    /\ UNCHANGED <<protocol_df, pc, data, oracle, field_stats,
                   field_dpi_alternatives, fields_dpi, all_alt_keys, dpi_result>>
    /\ UNCHANGED decVars
    /\ UNCHANGED segVars
    /\ UNCHANGED cmpVars

\* lines 448-465: the models are loaded, the records grouped by field name
DpiLoad ==
    /\ pc = "parse"
    /\ packets # <<>>
    /\ oracle' \in Oracles
    /\ field_stats' = group_by_name(Flatten(packets), first_indices(Flatten(packets)))
    /\ pc' = "fields"
    /\ UNCHANGED <<protocol_df, data, packets, field_dpi_alternatives, fields_dpi,
                   all_alt_keys, dpi_result>>
    /\ UNCHANGED decVars
    /\ UNCHANGED segVars
    /\ UNCHANGED cmpVars

\* lines 467-469: the next field is segmented
DpiSegment ==
    /\ pc = "fields"
    /\ Len(fields_dpi) < Len(field_stats)
    /\ field_name' = field_stats[Len(fields_dpi) + 1][1]
    /\ stats' = field_stats[Len(fields_dpi) + 1][2]
    /\ seg_dict' = segment_stats(field_stats[Len(fields_dpi) + 1][2])
    /\ field_dpi_alternatives' = <<>>
    /\ pc' = "alts"
    /\ UNCHANGED <<protocol_df, data, oracle, packets, field_stats, fields_dpi,
                   all_alt_keys, dpi_result>>
    /\ UNCHANGED decVars
    /\ UNCHANGED cmpVars

\* the segment the loop of line 470 is at, and its occurrences (line 471)
alt_label == seg_dict[Len(field_dpi_alternatives) + 1][1]
alt_stats ==
    Tabulate(Len(seg_dict[Len(field_dpi_alternatives) + 1][2]),
             LAMBDA k : stats[seg_dict[Len(field_dpi_alternatives) + 1][2][k] + 1])

\* lines 599-601, and 602 after the last segment of the field
keep(label, entry) ==
    /\ field_dpi_alternatives' = Append(field_dpi_alternatives, <<label, entry>>)
    /\ all_alt_keys' = all_alt_keys \cup {label}
    /\ IF Len(field_dpi_alternatives) + 1 = Len(seg_dict)
       THEN /\ fields_dpi' = Append(fields_dpi,
                                <<field_name,
                                  Append(field_dpi_alternatives, <<label, entry>>)>>)
            /\ pc' = "fields"
       ELSE /\ fields_dpi' = fields_dpi
            /\ pc' = "alts"

\* one turn of the loop over the segments (lines 470-601), the models
\* answering: the descriptor is kept, or an exception leaves generate_dpi
DpiDescribe ==
    /\ pc = "alts"
    /\ LET r == field_descriptor(protocol_df, field_name, stats, alt_stats, oracle)
       IN  IF r.ok
           THEN keep(alt_label,
                     Entry(field_name, alt_label, alt_stats,
                           extract_aggregated_features(alt_stats), r.dpi))
           ELSE /\ pc' = "raised"
                /\ UNCHANGED <<field_dpi_alternatives, fields_dpi, all_alt_keys>>
    /\ UNCHANGED <<protocol_df, data, oracle, packets, field_stats, dpi_result>>
    /\ UNCHANGED decVars
    /\ UNCHANGED segVars
    /\ UNCHANGED cmpVars

\* one of the predict calls of lines 475-481 raises: nothing catches it, the
\* exception leaves generate_dpi and main
DpiPredictRaises ==
    /\ pc = "alts"
    /\ pc' = "predict_raised"
    /\ UNCHANGED <<protocol_df, data>>
    /\ UNCHANGED decVars
    /\ UNCHANGED segVars
    /\ UNCHANGED dpiVars
    /\ UNCHANGED cmpVars

\* fields_dpi[name][label], a dictionary lookup
alternative(alts, label) ==
    alts[CHOOSE i \in 1..Len(alts) : alts[i][1] = label][2]

\* a faulty variant: the label is never looked for in the field's own map
has_no_alternative(alts, label) == label = "100%"

has_alternative(alts, label) == \E i \in 1..Len(alts) : alts[i][1] = label

\* lines 603-612: per label, every field's descriptor of that label or of "100%"
DpiMerge ==
    /\ pc = "fields"
    /\ Len(fields_dpi) = Len(field_stats)
    /\ dpi_result' =
         { <<label,
             Tabulate(Len(fields_dpi), LAMBDA k :
                 <<fields_dpi[k][1],
                   alternative(fields_dpi[k][2],
                               IF has_alternative(fields_dpi[k][2], label)
                               THEN label ELSE "100%")>>)>> :
           label \in all_alt_keys }
    /\ pc' = "done"
    /\ UNCHANGED <<protocol_df, data, oracle, packets, field_stats,
                   field_dpi_alternatives, fields_dpi, all_alt_keys>>
    /\ UNCHANGED decVars
    /\ UNCHANGED segVars
    /\ UNCHANGED cmpVars

DpiNext ==
    DpiPacket \/ DpiLoad \/ DpiSegment \/ DpiDescribe \/ DpiPredictRaises \/ DpiMerge

SpecDpi == DpiInit /\ [][DpiNext]_vars

-----------------------------------------------------------------------------
(* Properties of the segmentation engine *)

Segmented == pc = "segmented"

AllIndices == 0..(Len(stats) - 1)

\* the index set of the k-th segment of seg_dict
SegIndices(k) == { seg_dict[k][2][i] : i \in 1..Len(seg_dict[k][2]) }

Whole == <<"100%", Tabulate(Len(stats), LAMBDA i : i - 1)>>

\* a clustering axis ax as a set of values, its ends and its gaps
HasNaN(ax) == \E i \in 1..Len(ax) : ax[i].nan
ValueSet(ax) == { ax[i].n : i \in 1..Len(ax) }
Lowest(S)  == CHOOSE v \in S : \A u \in S : v <= u
Highest(S) == CHOOSE v \in S : \A u \in S : u <= v

\* the gap between v and the next larger value of S
GapAbove(S, v) == Lowest({ u \in S : u > v }) - v

LargestGap(S) ==
    LET hi   == Highest(S)
        gaps == { GapAbove(S, v) : v \in S \ {hi} }
    IN  Highest(gaps)

\* the axis has non-zero range and a largest gap of at least 1% of it
Bimodal(ax) ==
    /\ Len(ax) >= 2 /\ ~HasNaN(ax)
    /\ LET S == ValueSet(ax)
       IN  /\ Cardinality(S) >= 2
           /\ 100 * LargestGap(S) >= Highest(S) - Lowest(S)

\* the axis has fewer than two entries, or zero range, or a largest gap
\* below 1% of its range
Unimodal(ax) ==
    \/ Len(ax) < 2
    \/ /\ ~HasNaN(ax)
       /\ LET S == ValueSet(ax)
          IN  \/ Cardinality(S) = 1
              \/ 100 * LargestGap(S) < Highest(S) - Lowest(S)

\* the occurrences at or below v, and those above it
AtOrBelow(ax, v) == { i \in AllIndices : ax[i + 1].n <= v }
Above(ax, v)     == { i \in AllIndices : ax[i + 1].n > v }

TwoClusters == Segmented /\ Bimodal(axis(stats))

\* C4 as the specification states it: two clusters separated by a gap of at
\* least 1% of the range give exactly two segments whose index sets are
\* disjoint and whose union is the set of all indices.
C4_TwoDisjointSegments ==
    TwoClusters =>
        /\ Len(seg_dict) = 2
        /\ SegIndices(1) \cap SegIndices(2) = {}
        /\ SegIndices(1) \cup SegIndices(2) = AllIndices

\* C4, as the code has it: two clusters separated by a gap of at least 1% of
\* the range give the segment "100%" holding all indices and, when there
\* are fewer than 200 occurrences, exactly one more segment.  That main
\* segment is the larger side of a largest gap of the sorted axis, a
\* non-empty proper subset of the indices: the two index sets are nested,
\* never disjoint, and their union is the set of all indices.  From 200
\* occurrences on the main label can round to "100%" and is then
\* overwritten, leaving the single segment "100%".
C4_MainAndWholeSegment ==
    TwoClusters =>
        LET ax   == axis(stats)
            S    == ValueSet(ax)
            g    == LargestGap(S)
            main == SegIndices(1)
        IN  /\ seg_dict[Len(seg_dict)] = Whole
            /\ Len(seg_dict) \in {1, 2}
            /\ Len(stats) < 200 => Len(seg_dict) = 2
            /\ Len(seg_dict) = 2 =>
                  /\ seg_dict[1][1] # "100%"
                  /\ main # {}
                  /\ main # AllIndices
                  /\ main \subseteq SegIndices(2)
                  /\ main \cup SegIndices(2) = AllIndices
                  /\ 2 * Cardinality(main) >= Len(stats)
                  /\ \E c \in S \ {Highest(S)} :
                        /\ GapAbove(S, c) = g
                        /\ main \in {AtOrBelow(ax, c), Above(ax, c)}

C4_Witness ==
    /\ TwoClusters
    /\ Len(stats) >= 3
    /\ Len(seg_dict) = 2
    /\ Cardinality(SegIndices(1)) >= 2
    /\ Cardinality(ValueSet(axis(stats))) >= 3

\* the main label rounds to "100%" and the main segment is overwritten
C4_LabelCollision == TwoClusters /\ Len(seg_dict) = 1

\* C5: segment_stats returns the single segment "100%" holding all indices
\* when the occurrence list has fewer than 2 entries, or the axis has zero
\* range, or the axis has non-zero range but its largest consecutive gap is
\* smaller than 1% of the range.
C5_SingleWholeSegment ==
    (Segmented /\ Unimodal(axis(stats))) => seg_dict = <<Whole>>

\* the third case: non-zero range and a largest gap below 1% of it
C5_Witness ==
    /\ Segmented
    /\ LET ax == axis(stats)
       IN  Unimodal(ax) /\ Len(ax) >= 2 /\ Cardinality(ValueSet(ax)) >= 2
    /\ seg_dict = <<Whole>>

C5_OneEntry == Segmented /\ Len(stats) = 1 /\ seg_dict = <<Whole>>

C5_ZeroRange ==
    /\ Segmented /\ Len(stats) >= 2
    /\ LET ax == axis(stats) IN ~HasNaN(ax) /\ Cardinality(ValueSet(ax)) = 1
    /\ seg_dict = <<Whole>>

\* C6: for every non-empty occurrence list the result holds the key "100%"
\* mapped to exactly the index list 0..n-1 and at most one other segment,
\* whose indices are a subset of 0..n-1 without repetition.
C6_WholeSegmentAndAtMostOneMore ==
    Segmented =>
        /\ Cardinality({ k \in 1..Len(seg_dict) : seg_dict[k][1] = "100%" }) = 1
        /\ \A k \in 1..Len(seg_dict) :
              seg_dict[k][1] = "100%" => seg_dict[k] = Whole
        /\ Len(seg_dict) <= 2
        /\ \A k \in 1..Len(seg_dict) :
              /\ SegIndices(k) \subseteq AllIndices
              /\ Cardinality(SegIndices(k)) = Len(seg_dict[k][2])

C6_Witness ==
    /\ Segmented
    /\ Len(seg_dict) = 2
    /\ seg_dict[1][1] # "100%"
    /\ Len(seg_dict[1][2]) >= 2
    /\ seg_dict[2] = Whole

-----------------------------------------------------------------------------
(* Properties of the DPI synthesizer *)

EntriesOf(alts) == { alts[i][2] : i \in 1..Len(alts) }

\* every descriptor generate_dpi has made so far, with what it was made from
Produced ==
    EntriesOf(field_dpi_alternatives)
    \cup UNION { EntriesOf(fields_dpi[k][2]) : k \in 1..Len(fields_dpi) }
    \cup UNION { EntriesOf(p[2]) : p \in dpi_result }

\* the descriptors of the result generate_dpi returns
Returned == UNION { EntriesOf(p[2]) : p \in dpi_result }

\* the sizes observed in the segment of a descriptor
ObservedSizes(e) == { e.alt_stats[i].size : i \in 1..Len(e.alt_stats) }

\* the schema lookup of the size field of a descriptor's field
SizeFieldOf(e) == protocol_mapping(protocol_df)[e.field_name]

\* C7: isDynamicArray is true whenever the schema lookup gives the field a
\* non-blank sizeField, false whenever there is no sizeField and the
\* segment's observed minimum and maximum sizes are equal, whatever the
\* model predicts; only without sizeField and with differing observed sizes
\* is the model's class used.
C7_DynamicArrayOverrides ==
    \A e \in Produced :
        /\ SizeFieldOf(e) # "" => e.dpi.is_dynamic_array = TRUE
        /\ (SizeFieldOf(e) = "" /\ Cardinality(ObservedSizes(e)) = 1)
              => e.dpi.is_dynamic_array = FALSE
        /\ (SizeFieldOf(e) = "" /\ Cardinality(ObservedSizes(e)) > 1)
              => e.dpi.is_dynamic_array = (oracle.is_dynamic = 1)

\* a returned descriptor of a field with a sizeField and equal observed
\* sizes, the model answering "not dynamic"
C7_Witness ==
    /\ pc = "done"
    /\ oracle.is_dynamic = 0
    /\ \E e \in Returned :
         /\ SizeFieldOf(e) # ""
         /\ Cardinality(ObservedSizes(e)) = 1
         /\ e.dpi.is_dynamic_array = TRUE

C7_EqualSizesCase ==
    /\ pc = "done"
    /\ oracle.is_dynamic = 1
    /\ \E e \in Returned :
         /\ SizeFieldOf(e) = ""
         /\ Cardinality(ObservedSizes(e)) = 1
         /\ e.dpi.is_dynamic_array = FALSE

C7_ModelCase ==
    /\ pc = "done"
    /\ \E e \in Returned :
         /\ SizeFieldOf(e) = ""
         /\ Cardinality(ObservedSizes(e)) > 1
         /\ e.dpi.is_dynamic_array = (oracle.is_dynamic = 1)

\* C8: a model call that fails for some (endpoint, segment, field) does not
\* abort generate_dpi: the synthesis goes on to the endpoint's result, the
\* descriptor of that segment filled from the observed statistics.  In the
\* model the program is never at "predict_raised", the position where the
\* exception of a predict call has left generate_dpi without a result.
C8_ModelFailureIsSurvived == pc # "predict_raised"

\* a predict call has failed while a field of the endpoint was already
\* synthesized: generate_dpi has ended without a result
C8_Witness ==
    /\ pc = "predict_raised"
    /\ fields_dpi # <<>>
    /\ dpi_result = {}

\* not-a-number in a number or a list of numbers of a descriptor
IsNaN(d) ==
    \/ d.k = "num" /\ d.x.nan
    \/ d.k = "list" /\ \E i \in 1..Len(d.l) : d.l[i].nan

\* C9: for any combination of not-a-number outputs of the model, no minSize,
\* maxSize, minValue, maxValue or bitFieldCount of a descriptor is
\* not-a-number.
C9_NoNaNInDescriptor ==
    \A e \in Produced :
        /\ ~IsNaN(e.dpi.min_size)
        /\ ~IsNaN(e.dpi.max_size)
        /\ ~IsNaN(e.dpi.min_value)
        /\ ~IsNaN(e.dpi.max_value)

\* a returned descriptor whose minValue is not-a-number: the prediction is
\* not-a-number and so is the observed minimum of the segment
C9_Witness ==
    /\ pc = "done"
    /\ oracle.min_value.nan
    /\ \E e \in Returned :
         /\ e.features.min_value.nan
         /\ e.dpi.min_value = DNum(NaN)

\* the part of C9 the code keeps: a size whose prediction is not-a-number is
\* the observed one of the segment, and no size is not-a-number
NaNSizeIsObserved ==
    \A e \in Produced :
        /\ ~IsNaN(e.dpi.min_size) /\ ~IsNaN(e.dpi.max_size)
        /\ (oracle.min_size.nan /\ e.dpi.min_size.k = "num") =>
              e.dpi.min_size.x.n = Lowest(ObservedSizes(e))
        /\ (oracle.max_size.nan /\ e.dpi.max_size.k = "num") =>
              e.dpi.max_size.x.n = Highest(ObservedSizes(e))
        /\ (oracle.min_value.nan /\ e.dpi.min_value.k = "num") =>
              e.dpi.min_value.x = e.features.min_value
        /\ (oracle.max_value.nan /\ e.dpi.max_value.k = "num") =>
              e.dpi.max_value.x = e.features.max_value

\* the declared types that occur most often in the segment of a descriptor
SegmentModes(e) ==
    LET types == { e.alt_stats[i].field_type : i \in 1..Len(e.alt_stats) }
        count(t) == Cardinality({ i \in 1..Len(e.alt_stats) :
                                    e.alt_stats[i].field_type = t })
    IN  { t \in types : \A u \in types : count(u) <= count(t) }

\* C10: the fieldType of a descriptor is the mode of the declared types of
\* the segment's occurrences whenever that mode is not "bitfield" (of
\* several most frequent types, one of them).
C10_TypeIsModeOfSegment ==
    \A e \in Produced :
        Plain("bitfield") \notin SegmentModes(e) =>
            e.dpi.field_type \in SegmentModes(e)

\* a returned descriptor of type "char" for a segment of "int" occurrences
C10_Witness ==
    /\ pc = "done"
    /\ \E e \in Returned :
         /\ SegmentModes(e) = {Plain("int")}
         /\ e.dpi.field_type = Plain("char")

\* what the code has: the mode over all occurrences of the field name
TypeIsModeOfField ==
    \A e \in Produced :
        LET all == CHOOSE p \in { field_stats[k] : k \in 1..Len(field_stats) } :
                       p[1] = e.field_name
            m   == mode(types_of(all[2]))
        IN  e.dpi.field_type = IF m # Plain("bitfield") THEN m
                               ELSE Plain(oracle.field_type)

\* all occurrences of the field of a descriptor, in every segment
FieldStatsOf(e) ==
    (CHOOSE p \in { field_stats[k] : k \in 1..Len(field_stats) } :
        p[1] = e.field_name)[2]

\* the records of a segment that carry a bit vector, and the rounded mean
\* of their numbers of set bits as the decoder counted them
BitRecords(e) == SelectSeq(e.alt_stats, LAMBDA s : s.bitfields_count # None)

MeanSetBits(e) ==
    round_ratio(SumSeq(Tabulate(Len(BitRecords(e)),
                                LAMBDA i : BitRecords(e)[i].bitfields_count)),
                Len(BitRecords(e)))

\* the bit count a descriptor has when the mode m of the declared types is
\* "bitfield": the model's output or, for not-a-number, the mean of set bits
BitCountFor(e, m) ==
    IF m # Plain("bitfield") THEN e.dpi.bitfields_count = None
    ELSE IF ~oracle.bit_count.nan THEN e.dpi.bitfields_count = oracle.bit_count.n
    ELSE BitRecords(e) # <<>> /\ e.dpi.bitfields_count = MeanSetBits(e)

\* C11: bitFieldCount is null in every descriptor whose observed type mode,
\* the mode of the declared types of the segment's occurrences, is not
\* "bitfield"; when the mode is "bitfield" it is the model's bit count or,
\* that being not-a-number, the rounded mean number of set bits over the
\* records of the segment.
C11_BitCountFollowsSegmentMode ==
    \A e \in Produced : BitCountFor(e, mode(types_of(e.alt_stats)))

\* a returned descriptor of a segment of "int" occurrences only that has a
\* bit count, the one the model answered
C11_Witness ==
    /\ pc = "done"
    /\ \E e \in Returned :
         /\ SegmentModes(e) = {Plain("int")}
         /\ e.dpi.bitfields_count # None
         /\ e.dpi.bitfields_count = oracle.bit_count.n

\* the same segment when the model's bit count is not-a-number: the mean
\* over no bit vector is not-a-number, and int(round(nan)) raises
C11_NoBitsToCount ==
    /\ pc = "raised"
    /\ oracle.bit_count.nan
    /\ \A i \in 1..Len(alt_stats) : alt_stats[i].bitfields_count = None

\* what the code has: the mode is the one of all occurrences of the field
\* name, compared with "bitfield" whatever its letter case
BitCountFollowsFieldMode ==
    \A e \in Produced :
        LET m == mode(types_of(FieldStatsOf(e)))
        IN  BitCountFor(e, IF m.arr THEN m ELSE Plain(lower(m.tok)))

\* a declared type "BITFIELD": the mode is not "bitfield", the descriptor
\* has a bit count all the same
C11_UpperCaseBitfield ==
    /\ pc = "done"
    /\ \E e \in Returned :
         /\ SegmentModes(e) = {Plain("BITFIELD")}
         /\ e.dpi.bitfields_count # None

\* the schema row of the field of a descriptor
RowOf(e) == proto_row(protocol_df, e.field_name)

\* a fixed array: declared "array of X" with elementCount > 0
FixedArray(e) == RowOf(e).type.arr /\ RowOf(e).num_elements > 0

NumericBase(e) == lower(RowOf(e).type.tok) \in {"int", "float", "double", "long"}

\* element i (from 1) of every occurrence of the segment, as numbers
Column(e, i) ==
    { float_of(e.alt_stats[r].value.l[i]).x : r \in 1..Len(e.alt_stats) }

\* a < b on floats: false when either is not-a-number
NumLess(a, b) == ~a.nan /\ ~b.nan /\ a.n < b.n

\* m is a least (greatest) number of the column
IsLeast(m, col)    == m \in col /\ \A x \in col : ~NumLess(x, m)
IsGreatest(m, col) == m \in col /\ \A x \in col : ~NumLess(m, x)

C12_NonNumericBase ==
    /\ pc = "done"
    /\ \E e \in Returned :
         FixedArray(e) /\ ~NumericBase(e) /\ e.dpi.min_value = DNull

\* the scalar minSize and maxSize of a descriptor before the array override:
\* the model's prediction, or the observed size for not-a-number
ScalarMinSize(e) ==
    IF oracle.min_size.nan THEN Lowest(ObservedSizes(e)) ELSE oracle.min_size.n
ScalarMaxSize(e) ==
    IF oracle.max_size.nan THEN Highest(ObservedSizes(e)) ELSE oracle.max_size.n

\* a list of exactly n numbers, none not-a-number
SizeList(d, n) ==
    d.k = "list" /\ Len(d.l) = n /\ \A i \in 1..n : ~d.l[i].nan

\* C13 as stated: for a fixed array field with elementCount n > 0, minSize
\* and maxSize are lists of exactly n entries and every entry is the scalar
\* minSize (maxSize) divided evenly by n: n entries add up to the scalar.
C13_SizeListsAreEvenShares ==
    \A e \in Produced :
        FixedArray(e) =>
            LET n == RowOf(e).num_elements
            IN  /\ SizeList(e.dpi.min_size, n)
                /\ SizeList(e.dpi.max_size, n)
                /\ \A i \in 1..n :
                      /\ n * e.dpi.min_size.l[i].n = ScalarMinSize(e)
                      /\ n * e.dpi.max_size.l[i].n = ScalarMaxSize(e)

\* C13, amended: for a fixed array field with elementCount n > 0, minSize
\* and maxSize are lists of exactly n entries and every entry is the floor
\* of the scalar minSize (maxSize) divided by n, the scalar being the
\* model's prediction or its observed fallback.
C13_SizeListsAreFloorQuotients ==
    \A e \in Produced :
        FixedArray(e) =>
            LET n == RowOf(e).num_elements
            IN  /\ SizeList(e.dpi.min_size, n)
                /\ SizeList(e.dpi.max_size, n)
                /\ \A i \in 1..n :
                      /\ n * e.dpi.min_size.l[i].n <= ScalarMinSize(e)
                      /\ ScalarMinSize(e) < n * (e.dpi.min_size.l[i].n + 1)
                      /\ n * e.dpi.max_size.l[i].n <= ScalarMaxSize(e)
                      /\ ScalarMaxSize(e) < n * (e.dpi.max_size.l[i].n + 1)

\* a returned descriptor of an array of four elements whose predicted
\* minSize, 6, is no multiple of four: every entry is 1
C13_Witness ==
    /\ pc = "done"
    /\ oracle.min_size = Num(6)
    /\ \E e \in Returned :
         /\ FixedArray(e) /\ RowOf(e).num_elements = 4
         /\ e.dpi.min_size = DList(<<Num(1), Num(1), Num(1), Num(1)>>)

\* the observed fallback shared out: a not-a-number prediction, two elements
C13_ObservedFallback ==
    /\ pc = "done"
    /\ oracle.max_size.nan
    /\ \E e \in Returned :
         /\ FixedArray(e) /\ RowOf(e).num_elements = 2
         /\ e.dpi.max_size = DList(<<Num(1), Num(1)>>)

\* the kinds extract_aggregated_features reads as numbers (line 365), and
\* arrays of them
AggregatorNumeric(t) == lower(t.tok) \in {"int", "float", "double", "long", "short"}

\* the kinds lines 577-578 keep minValue and maxValue for
DescriptorNumeric(t) == lower(t.tok) \in {"int", "float", "double", "long"}

\* C14: in every final descriptor minValue and maxValue are null exactly
\* when the final fieldType is non-numeric, the numeric kinds being the ones
\* the feature aggregator treats as numeric (int, float, double, long,
\* short) and arrays of them.
C14_NullExactlyForNonNumeric ==
    \A e \in Produced :
        /\ (e.dpi.min_value = DNull) <=> ~AggregatorNumeric(e.dpi.field_type)
        /\ (e.dpi.max_value = DNull) <=> ~AggregatorNumeric(e.dpi.field_type)

\* a returned descriptor of final type "short" whose minValue and maxValue
\* are null, the observed minimum being a number
C14_Witness ==
    /\ pc = "done"
    /\ \E e \in Returned :
         /\ e.dpi.field_type = Plain("short")
         /\ ~e.features.min_value.nan
         /\ e.dpi.min_value = DNull /\ e.dpi.max_value = DNull

\* what the code has: null exactly when the final type is none of int,
\* float, double, long or an array of them
NullExactlyOutsideDescriptorNumeric ==
    \A e \in Produced :
        /\ (e.dpi.min_value = DNull) <=> ~DescriptorNumeric(e.dpi.field_type)
        /\ (e.dpi.max_value = DNull) <=> ~DescriptorNumeric(e.dpi.field_type)

\* values computed before are dropped: a bitfield whose model type is
\* "bitfield" loses the predicted minValue
C14_PredictionDropped ==
    /\ pc = "done"
    /\ ~oracle.min_value.nan
    /\ \E e \in Returned :
         e.dpi.field_type = Plain("bitfield") /\ e.dpi.min_value = DNull

\* the field names of the endpoint, and the labels of the segments of a field
FieldNames == { field_stats[k][1] : k \in 1..Len(field_stats) }

LabelsOf(name) ==
    { a[1] : a \in UNION { { fields_dpi[k][2][j] : j \in 1..Len(fields_dpi[k][2]) } :
                            k \in { k \in 1..Len(fields_dpi) : fields_dpi[k][1] = name } } }

\* the descriptors the result has under a label for a field name
UnderLabel(label, name) ==
    UNION { { p[2][i][2] : i \in { i \in 1..Len(p[2]) : p[2][i][1] = name } } :
            p \in { p \in dpi_result : p[1] = label } }

\* C15: in the result of generate_dpi every segment label that appears for
\* at least one field maps to a descriptor for every field name of the
\* endpoint; a field whose own segment map lacks the label has its own
\* "100%" descriptor there.
C15_EveryLabelCoversEveryField ==
    pc = "done" =>
        /\ { p[1] : p \in dpi_result } = UNION { LabelsOf(name) : name \in FieldNames }
        /\ \A p \in dpi_result : \A name \in FieldNames :
              /\ Cardinality({ i \in 1..Len(p[2]) : p[2][i][1] = name }) = 1
              /\ \A e \in UnderLabel(p[1], name) :
                    /\ e.field_name = name
                    /\ e.label = IF p[1] \in LabelsOf(name) THEN p[1] ELSE "100%"

\* a result with a label that one field has and another lacks: the second
\* field has its "100%" descriptor under the label
C15_Witness ==
    /\ pc = "done"
    /\ \E p \in dpi_result : \E f, g \in FieldNames :
         /\ p[1] # "100%"
         /\ p[1] \in LabelsOf(f)
         /\ p[1] \notin LabelsOf(g)
         /\ \E e \in UnderLabel(p[1], f) : e.label = p[1]
         /\ \E e \in UnderLabel(p[1], g) : e.label = "100%"

-----------------------------------------------------------------------------
(* load_custom_types and load_protocol_definitions as a state machine *)

\* number of lines after the count line
MaxLines == 2

\* the catalogs: none, one type, and a type whose sub-fields name another
Catalogs ==
    { <<>>,
      CustomDocs,
      << Doc("pt", 2, << DocField("x", 1, "int", "", 0),
                         DocField("k", 1, "Bit", "", 0) >>),
         Doc("Seg", 4, << DocField("a", 2, "pt", "", 0),
                          DocField("b", 2, "ARRAY", "pt", 1),
                          DocField("z", 0, "array", "int", 0),
                          DocField("p", 2, "Point", "", 0) >>) >> }

\* the lines of a protocol text, split into tokens
CompilerLines ==
    { <<"n", "1", "int">>,
      <<"d", "0", "char", "n">>,
      <<"k", "1", "Bit">>,
      <<"k", "1", "bitfield", "n">>,
      <<"a", "2", "array", "int", "2">>,
      <<"a", "2", "ARRAY", "int", "0">>,
      <<"loc", "2", "Point">>,
      <<"ps", "4", "array", "Point", "2">>,
      <<"ps", "3", "array", "pt", "2">>,
      <<"s", "4", "Seg">>,
      <<"w", "2", "pt", "n">>,
      <<"e", "2", "array", "Seg", "0">>,
      <<"bad">>,
      <<"a", "x", "int">> }

\* the non-blank lines of the file: the count, then up to MaxLines lines
CompilerTexts ==
    { <<>> } \cup
    { <<first>> \o t : first \in { <<"2">>, <<"x">> },
                       t \in SeqsUpTo(CompilerLines, MaxLines) }

CmpInit ==
    /\ coll \in Catalogs
    /\ file_lines \in CompilerTexts
    /\ pc = "import"
    /\ result = <<>>
    /\ line_no = 0
    /\ rows = <<>>
    /\ protocol_df = <<>>
    /\ data = EmptyDict
    /\ pkts = 0 /\ payload = <<>> /\ src_ip = "" /\ pkt = NoPacket /\ idx = 1
    /\ offset = 0 /\ packet_data = EmptyDict /\ records = <<>>
    /\ field_name = "" /\ stats = <<>> /\ seg_dict = <<>>
    /\ DpiIdle

\* lines 86-90: the catalog is read and compiled
CmpLoadTypes ==
    /\ pc = "import"
    /\ result' = load_custom_types(coll)
    /\ pc' = "count"
    /\ UNCHANGED <<protocol_df, data, coll, file_lines, line_no, rows>>
    /\ UNCHANGED decVars
    /\ UNCHANGED segVars
    /\ UNCHANGED dpiVars

\* lines 109-117: the first line must be the number of fields
CmpCount ==
    /\ pc = "count"
    /\ pc' = IF file_lines # <<>> /\ Len(file_lines[1]) = 1
                 /\ int_of_token(file_lines[1][1]).ok
              THEN "lines" ELSE "rejected"
    /\ UNCHANGED <<protocol_df, data>>
    /\ UNCHANGED cmpVars
    /\ UNCHANGED decVars
    /\ UNCHANGED segVars
    /\ UNCHANGED dpiVars

\* one turn of the loop of line 118: the rows of the line are appended, or
\* the line is refused (ValueError)
CmpLine ==
    /\ pc = "lines"
    /\ line_no + 1 < Len(file_lines)
    /\ LET r == compile_line(file_lines[line_no + 2], result)
       IN  IF r.ok
           THEN /\ rows' = rows \o r.rows
                /\ line_no' = line_no + 1
                /\ pc' = "lines"
           ELSE /\ pc' = "rejected"
                /\ UNCHANGED <<rows, line_no>>
    /\ UNCHANGED <<protocol_df, data, coll, result, file_lines>>
    /\ UNCHANGED decVars
    /\ UNCHANGED segVars
    /\ UNCHANGED dpiVars

\* lines 195-198 and 204: the rows become the schema
CmpReturn ==
    /\ pc = "lines"
    /\ line_no + 1 = Len(file_lines)
    /\ protocol_df' = rows
    /\ pc' = "compiled"
    /\ UNCHANGED data
    /\ UNCHANGED cmpVars
    /\ UNCHANGED decVars
    /\ UNCHANGED segVars
    /\ UNCHANGED dpiVars

CmpNext == CmpLoadTypes \/ CmpCount \/ CmpLine \/ CmpReturn

SpecCompile == CmpInit /\ [][CmpNext]_vars

-----------------------------------------------------------------------------
(* Properties of the schema compiler *)

\* the loop over the lines yields what load_protocol_definitions yields
CompiledAsAWhole ==
    /\ pc = "compiled" =>
          /\ load_protocol_definitions(file_lines, result).ok
          /\ load_protocol_definitions(file_lines, result).rows = protocol_df
    /\ pc = "rejected" => ~load_protocol_definitions(file_lines, result).ok

Compiled == pc = "compiled"

\* C16: every FieldSpec of every accepted schema has elementCount > 0 if
\* and only if its declaredType starts with "array of".
C16_ElementCountIffArray ==
    Compiled =>
        \A i \in 1..Len(protocol_df) :
            protocol_df[i].num_elements > 0 <=> startswith_array_of(protocol_df[i].type)

\* an accepted schema with an "array of" FieldSpec of elementCount 0, from
\* a line of the text with the count token "0"
C16_Witness ==
    /\ Compiled
    /\ \E k \in 2..Len(file_lines) :
         Len(file_lines[k]) = 5 /\ file_lines[k][5] = "0"
    /\ \E i \in 1..Len(protocol_df) :
         /\ startswith_array_of(protocol_df[i].type)
         /\ protocol_df[i].num_elements = 0
         /\ protocol_df[i].name = "a"

\* the half the compiler keeps: only arrays have an element count
ElementCountOnlyForArrays ==
    Compiled =>
        \A i \in 1..Len(protocol_df) :
            protocol_df[i].num_elements > 0 => startswith_array_of(protocol_df[i].type)

\* C17: every FieldSpec of every accepted schema has isBitfield true if and
\* only if its declaredType is exactly "bitfield".
C17_BitfieldIffDeclaredBitfield ==
    Compiled =>
        \A i \in 1..Len(protocol_df) :
            protocol_df[i].is_bitfield <=> protocol_df[i].type = Plain("bitfield")

\* an accepted schema with a FieldSpec that is a bitfield of declaredType
\* "Bit", from a line of the text
C17_Witness ==
    /\ Compiled
    /\ \E i \in 1..Len(protocol_df) :
         /\ protocol_df[i].is_bitfield
         /\ protocol_df[i].type = Plain("Bit")
         /\ protocol_df[i].name = "k"

\* what the compiler keeps: isBitfield follows the type token read without
\* its letter case; sub-fields of custom types are declared "bitfield"
BitfieldIffBitToken ==
    Compiled =>
        \A i \in 1..Len(protocol_df) :
            /\ protocol_df[i].is_bitfield <=>
                  /\ ~protocol_df[i].type.arr
                  /\ lower(protocol_df[i].type.tok) \in {"bit", "bitfield"}
            /\ protocol_df[i].type = Plain("bitfield") => protocol_df[i].is_bitfield

\* the line the loop of line 118 is at
AtLine == pc = "lines" /\ line_no + 1 < Len(file_lines)
ThisLine == file_lines[line_no + 2]

\* `name size Custom` and `name size array Custom count`
SingleCustom(toks) == Len(toks) = 3 /\ toks[3] \in DOMAIN result
ArrayCustom(toks) ==
    /\ Len(toks) = 5 /\ lower(toks[3]) = "array" /\ toks[4] \in DOMAIN result
    /\ int_of_token(toks[2]).ok /\ int_of_token(toks[5]).ok

\* the rows appended by the step, and sub-field j of a custom type
Emitted == SubSeq(rows', Len(rows) + 1, Len(rows'))
SubField(typ, j) == result[typ].fields[j]

\* C18: compiling a custom-type line emits, in catalog order, one FieldSpec
\* per sub-field: named outer.sub for `name size Custom`, outer[i].sub for
\* `name size array Custom count` with i from 0 to count-1 as the outer
\* loop; size, type, sizeField, elementCount and isBitfield are copied from
\* the sub-field, so the line contributes count x (number of sub-fields)
\* entries, whatever its declared size.
C18_Step ==
    /\ (AtLine /\ SingleCustom(ThisLine)) =>
          LET nf == Len(result[ThisLine[3]].fields)
          IN  /\ pc' = "lines"
              /\ SubSeq(rows', 1, Len(rows)) = rows
              /\ Len(Emitted) = nf
              /\ \A j \in 1..nf :
                    Emitted[j] =
                      [SubField(ThisLine[3], j) EXCEPT
                         !.name = ThisLine[1] \o "." \o SubField(ThisLine[3], j).name]
    /\ (AtLine /\ ArrayCustom(ThisLine)) =>
          LET nf    == Len(result[ThisLine[4]].fields)
              count == int_of_token(ThisLine[5]).n
          IN  /\ pc' = "lines"
              /\ SubSeq(rows', 1, Len(rows)) = rows
              /\ Len(Emitted) = count * nf
              /\ \A i \in 0..(count - 1) : \A j \in 1..nf :
                    Emitted[i * nf + j] =
                      [SubField(ThisLine[4], j) EXCEPT
                         !.name = ThisLine[1] \o "[" \o ToString(i) \o "]."
                                    \o SubField(ThisLine[4], j).name]

C18_CustomLineInlinesSubFields == [][C18_Step]_vars

\* the line `ps 3 array pt 2`, whose declared size 3 is not 2 x 2, has been
\* compiled to ps[0].x, ps[0].k, ps[1].x, ps[1].k, sizes 1 each
C18_Witness ==
    /\ pc = "lines"
    /\ line_no >= 1
    /\ file_lines[line_no + 1] = <<"ps", "3", "array", "pt", "2">>
    /\ "pt" \in DOMAIN result
    /\ Len(rows) >= 4
    /\ rows[Len(rows) - 3].name = "ps[0].x"
    /\ rows[Len(rows)].name = "ps[1].k"
    /\ \A j \in 0..3 : rows[Len(rows) - j].size = 1

\* a sub-field with an element count inlined by `s 4 Seg`
C18_ArraySubField ==
    /\ pc = "lines"
    /\ \E i \in 1..Len(rows) :
         rows[i].name = "s.b" /\ rows[i].num_elements = 1

\* C19: the compiled schema is fully flattened: no FieldSpec of the result
\* has a declaredType, or an array element type, that is the name of a
\* custom type of the catalog, sub-fields declared with a custom type
\* included.
C19_FullyFlattened ==
    Compiled =>
        \A i \in 1..Len(protocol_df) : protocol_df[i].type.tok \notin DOMAIN result

\* an accepted schema where the sub-field a of Seg, declared with the custom
\* type pt, is a FieldSpec of declaredType pt
C19_Witness ==
    /\ Compiled
    /\ "pt" \in DOMAIN result
    /\ \E i \in 1..Len(protocol_df) :
         protocol_df[i].name = "s.a" /\ protocol_df[i].type = Plain("pt")

\* a line `name size Custom sizeField` is not inlined either
C19_CustomWithSizeField ==
    /\ Compiled
    /\ \E i \in 1..Len(protocol_df) :
         protocol_df[i].name = "w" /\ protocol_df[i].type = Plain("pt")

\* what the compiler does: one level of inlining.  With a catalog whose
\* sub-fields name no custom type, and no custom type on a line of four
\* tokens, the schema is flat.
FlatCatalog ==
    \A t \in DOMAIN result : \A j \in 1..Len(result[t].fields) :
        result[t].fields[j].type.tok \notin DOMAIN result

FlattenedOneLevel ==
    (/\ Compiled
     /\ FlatCatalog
     /\ \A k \in 2..Len(file_lines) :
           Len(file_lines[k]) = 4 => file_lines[k][3] \notin DOMAIN result)
        => \A i \in 1..Len(protocol_df) : protocol_df[i].type.tok \notin DOMAIN result

-----------------------------------------------------------------------------
(* The endpoint key of the decoder *)

\* the step files the records of the packet under the key ip and leaves the
\* other keys as they are
FiledUnder(ip) ==
    /\ ip \in DOMAIN data'
    /\ data'[ip] = Append(IF ip \in DOMAIN data THEN data[ip] ELSE <<>>, records)
    /\ \A k \in (DOMAIN data') \ {ip} : k \in DOMAIN data /\ data'[k] = data[k]

\* a decoded packet is about to be stored
Storing == pc = "packet_end" /\ records # <<>>

\* C20 as stated: every decoded packet is stored under the source IP address
\* of its datagram, for datagrams sent to port 10000 and for datagrams sent
\* from port 10000.
C20_SourceStep == Storing => FiledUnder(pkt.src)

C20_PeerStep ==
    Storing =>
        /\ pkt.dport = Port => FiledUnder(pkt.src)
        /\ (pkt.dport # Port /\ pkt.sport = Port) => FiledUnder(pkt.dst)

C20_ToPort ==
    /\ pc = "capture"
    /\ pkts = 1
    /\ pkt.dport = Port /\ pkt.sport = Port
    /\ DOMAIN data = {pkt.src}

-----------------------------------------------------------------------------
(* Payloads written by the capture generator, then decoded *)

\* longest text of a dynamic field
MaxText == 2

\* n.to_bytes(size, 'big')
to_bytes(n, size) == Tabulate(size, LAMBDA i : (n \div (256 ^ (size - i))) % 256)

\* text.ljust(size, b'\x00')[:size]
ljust_nul(text, size) ==
    Tabulate(size, LAMBDA i : IF i <= Len(text) THEN text[i] ELSE 0)

\* the bytes of one field value: an int in its declared size, a text padded
\* to its declared size, the text of a dynamic field as it is
encode_value(row, v) ==
    IF v.k = "int" THEN to_bytes(v.n, row.size)
    ELSE IF row.size = 0 THEN v.s
    ELSE ljust_nul(v.s, row.size)

\* b''.join(parts)
create_payload(df, vals) ==
    Flatten(Tabulate(Len(df), LAMBDA i : encode_value(df[i], vals[i])))

\* schemas of fixed-size int and char fields, some ending in a dynamic char
RtTexts ==
    { << <<"2">>, <<"n", "1", "int">>, <<"t", "2", "char">> >>,
      << <<"2">>, <<"t", "2", "Char">>, <<"n", "2", "INT">> >>,
      << <<"3">>, <<"n", "2", "int">>, <<"t", "1", "char">>, <<"m", "0", "char">> >>,
      << <<"2">>, <<"t", "1", "char">>, <<"m", "0", "char">> >> }

RtSchemas == { load_protocol_definitions(t, custom_types).rows : t \in RtTexts }

\* the values a field can be given: unsigned integers of the declared
\* size; texts that fit and do not end in a zero byte
RtInts(size) == {0, 1, 49, 256 ^ (size - 1), (256 ^ size) - 1}

RtStrings(n) ==
    { t \in SeqsUpTo({0, 49, 65}, n) : t = <<>> \/ t[Len(t)] # 0 }

FieldValues(row) ==
    IF lower(row.type.tok) = "int"
    THEN { IntV(n) : n \in RtInts(row.size) }
    ELSE { StrV(t) : t \in RtStrings(IF row.size = 0 THEN MaxText ELSE row.size) }

RECURSIVE ValueTuples(_)
ValueTuples(df) ==
    IF df = <<>> THEN { <<>> }
    ELSE { <<v>> \o rest : v \in FieldValues(df[1]), rest \in ValueTuples(Tail(df)) }

RtInit ==
    /\ protocol_df \in RtSchemas
    /\ pc = "encode"
    /\ pkts = 0
    /\ payload = <<>>
    /\ src_ip = ""
    /\ pkt = NoPacket
    /\ idx = 1
    /\ offset = 0
    /\ packet_data = EmptyDict
    /\ records = <<>>
    /\ data = EmptyDict
    /\ field_name = ""
    /\ stats = <<>>
    /\ seg_dict = <<>>
    /\ DpiIdle
    /\ CmpIdle

\* a datagram with a generated payload is written and taken from the
\* capture (generate_pcap, then lines 223-230 of the decoder)
RtEncode ==
    /\ pc = "encode"
    /\ \E vals \in ValueTuples(protocol_df) :
         payload' = create_payload(protocol_df, vals)
    /\ \E h \in Headers :
         /\ is_protocol_packet(h)
         /\ h.dport = Port /\ h.sport # Port
         /\ pkt' = h
         /\ src_ip' = endpoint_of(h)
    /\ idx' = 1
    /\ offset' = 0
    /\ packet_data' = EmptyDict
    /\ records' = <<>>
    /\ pc' = "fields"
    /\ UNCHANGED <<protocol_df, pkts, data>>
    /\ UNCHANGED segVars
    /\ UNCHANGED dpiVars
    /\ UNCHANGED cmpVars

RtNext == RtEncode \/ DecodeField \/ EndPacket

SpecRoundTrip == RtInit /\ [][RtNext]_vars

\* C21: for every schema of fixed-size int and char fields (optionally
\* ending in one dynamic char field) and every tuple of field values,
\* decoding the payload built from the values yields one record per field
\* whose value is the original value: integers exactly, text without its
\* trailing padding.
C21_RoundTrip ==
    pc = "packet_end" =>
        \A vals \in ValueTuples(protocol_df) :
            payload = create_payload(protocol_df, vals) =>
                /\ Len(records) = Len(protocol_df)
                /\ \A i \in 1..Len(protocol_df) :
                      /\ records[i].field_name = protocol_df[i].name
                      /\ records[i].value = vals[i]

\* a decoded packet with a two-byte integer 256, a text shorter than its
\* field and a dynamic text of two characters
C21_Witness ==
    /\ pc = "packet_end"
    /\ Len(protocol_df) = 3
    /\ payload = <<1, 0, 0, 65, 49>>
    /\ Len(records) = 3
    /\ records[1].value = IntV(256)
    /\ records[2].value = StrV(<<>>)
    /\ records[3].value = StrV(<<65, 49>>)

\* a padded text with a zero byte inside
C21_PaddedText ==
    /\ pc = "packet_end"
    /\ payload = <<0, 65, 0, 49>>
    /\ Len(records) = 2
    /\ records[1].value = StrV(<<0, 65>>)

-----------------------------------------------------------------------------
(* Order of the packets of an endpoint *)

\* the packet list of the endpoint in another order
Reordered(f) == Tabulate(Len(packets), LAMBDA i : packets[f[i]])

\* the occurrences of a field name in a packet list (lines 461-464)
StatsIn(pk, name) == occurrences(Flatten(pk), name)

\* the occurrences of segment k of an occurrence list
SegmentOf(st, segs, k) ==
    Tabulate(Len(segs[k][2]), LAMBDA j : st[segs[k][2][j] + 1])

\* what generate_dpi makes of the occurrences of a field: per segment its
\* label, its records as a set, its features and its descriptor
OutcomeOf(name, st, segs) ==
    { << segs[k][1],
         { st[segs[k][2][j] + 1] : j \in 1..Len(segs[k][2]) },
         extract_aggregated_features(SegmentOf(st, segs, k)),
         field_descriptor(protocol_df, name, st, SegmentOf(st, segs, k), oracle) >> :
      k \in 1..Len(segs) }

Outcome(name, st) == OutcomeOf(name, st, segment_stats(st))

\* the models are loaded and a field is being synthesized
Synthesizing == pc = "alts"

\* C22: aggregation is order-independent: with a deterministic model, for
\* every permutation of the endpoint's packet list generate_dpi yields the
\* same feature vectors, the same partition of each field's occurrences
\* into segments (as sets of records), the same labels and the same
\* descriptors.
C22_OrderIndependent ==
    Synthesizing =>
        \A f \in Permutations(1..Len(packets)) :
            Outcome(field_name, StatsIn(Reordered(f), field_name))
                = Outcome(field_name, stats)

\* an occurrence whose value is a list with a not-a-number element
HoldsNaN(r) ==
    r.value.k = "list" /\ \E i \in 1..Len(r.value.l) : float_of(r.value.l[i]).x.nan

\* two packets of an array of float, the first not-a-number and the second
\* 2.0: the descriptor has minValue [nan], and [2.0] for the packets in
\* the other order
C22_Witness ==
    /\ Synthesizing
    /\ Len(packets) = 2
    /\ Len(stats) = 2
    /\ HoldsNaN(stats[1]) /\ ~HoldsNaN(stats[2])
    /\ \E x \in Outcome(field_name, stats) : x[4].ok /\ x[4].dpi.min_value = DList(<<NaN>>)
    /\ \E x \in Outcome(field_name, StatsIn(<<packets[2], packets[1]>>, field_name)) :
         x[4].ok /\ x[4].dpi.min_value = DList(<<Num(2)>>)

\* what holds: the order of the packets is without effect as long as no
\* array element is not-a-number
OrderIndependentWithoutNaN ==
    (Synthesizing /\ \A i \in 1..Len(stats) : ~HoldsNaN(stats[i])) =>
        \A f \in Permutations(1..Len(packets)) :
            Outcome(field_name, StatsIn(Reordered(f), field_name))
                = Outcome(field_name, stats)

-----------------------------------------------------------------------------
(* The main segment and its label *)

\* round(a / b) on the exact quotient, halves to the even neighbour
RoundExact(a, b) ==
    LET q == a \div b
        r == a % b
    IN  IF 2 * r < b THEN q
        ELSE IF 2 * r > b THEN q + 1
        ELSE IF q % 2 = 0 THEN q ELSE q + 1

\* the larger side of the gap above c, the lower one when they are equal
MainSide(ax, c) ==
    IF Cardinality(AtOrBelow(ax, c)) >= Cardinality(Above(ax, c))
    THEN AtOrBelow(ax, c) ELSE Above(ax, c)

\* C23: when segment_stats splits at the largest gap, the group with more
\* occurrences is the main segment, with the label
\* round(100 * |main| / |all|) followed by "%"; of two groups of the same
\* size the one of the lower values is the main segment; every index of
\* the main segment lies on the same side of the gap.
C23_MainSegmentAndLabel ==
    TwoClusters =>
        LET ax == axis(stats)
            S  == ValueSet(ax)
        IN  \E c \in S \ {Highest(S)} :
                /\ GapAbove(S, c) = LargestGap(S)
                /\ SegIndices(1) = MainSide(ax, c)
                /\ seg_dict[1][1]
                     = ToString(RoundExact(100 * Cardinality(MainSide(ax, c)),
                                           Len(stats))) \o "%"

\* 23 occurrences of the value 1 and 17 of the value 9: the main segment
\* holds 57.5% of the occurrences and has the label "57%"
C23_Witness ==
    /\ TwoClusters
    /\ Len(stats) = 40
    /\ Len(seg_dict) = 2
    /\ Cardinality(SegIndices(1)) = 23
    /\ seg_dict[1][1] = "57%"

\* two groups of the same size: the lower values are the main segment
C23_EqualSides ==
    /\ TwoClusters
    /\ Len(stats) = 4
    /\ Len(seg_dict) = 2
    /\ seg_dict[1][1] = "50%"
    /\ SegIndices(1) = AtOrBelow(axis(stats), Lowest(ValueSet(axis(stats))))

\* what holds: the main segment is the larger side of a largest gap (the
\* lower one of two equal sides) and its label is the percentage as
\* round_percent computes it; a label "100%" is the whole segment's
MainSegmentWithComputedLabel ==
    (TwoClusters /\ Len(seg_dict) = 2) =>
        LET ax == axis(stats)
            S  == ValueSet(ax)
        IN  \E c \in S \ {Highest(S)} :
                /\ GapAbove(S, c) = LargestGap(S)
                /\ SegIndices(1) = MainSide(ax, c)
                /\ seg_dict[1][1]
                     = percent_label(round_percent(Cardinality(MainSide(ax, c)),
                                                   Len(stats)))

-----------------------------------------------------------------------------
(* The clustering axis *)

\* a declared type of a numeric kind
NumericKind(t) ==
    ~t.arr /\ lower(t.tok) \in {"int", "float", "double", "long", "short"}

\* the decoded values as numbers
ParsedValues(st) == Tabulate(Len(st), LAMBDA i : float_of(st[i].value).x)

AllParsed(st) == \A i \in 1..Len(st) : float_of(st[i].value).ok

AllZero(st) == \A i \in 1..Len(st) : NumEq(float_of(st[i].value).x, 0)

\* the values for a numeric kind whose values are not all 0, the sizes in
\* every other case
ValuesOrSizes(st) ==
    IF NumericKind(st[1].field_type) /\ ~AllZero(st)
    THEN ParsedValues(st) ELSE sizes_axis(st)

\* C24: segment_stats clusters on the decoded values if and only if the
\* declared type is a numeric kind (int, float, double, long, short) and
\* not all parsed numeric values are exactly 0; in every other case it
\* clusters on the resolved byte sizes.  (Stated for occurrences whose
\* values read as numbers.)
C24_ValuesIffNumericKind ==
    (Segmented /\ (NumericKind(stats[1].field_type) => AllParsed(stats))) =>
        /\ axis(stats) = ValuesOrSizes(stats)
        /\ seg_dict = segment_values(Len(stats), ValuesOrSizes(stats))

\* a field of type short with the values 1, 9, 9 and the sizes 1, 1, 1:
\* the single segment of the sizes, not the two segments of the values
C24_Witness ==
    /\ Segmented
    /\ lower(stats[1].field_type.tok) = "short"
    /\ Len(stats) = 3
    /\ AllParsed(stats)
    /\ ParsedValues(stats) = <<Num(1), Num(9), Num(9)>>
    /\ sizes_axis(stats) = <<Num(1), Num(1), Num(1)>>
    /\ seg_dict = <<Whole>>
    /\ Len(segment_values(3, ParsedValues(stats))) = 2

\* the numeric kinds of line 406
AxisNumeric(t) ==
    ~t.arr /\ lower(t.tok) \in {"int", "float", "double", "long"}

\* what holds: the values are the axis exactly for the types int, float,
\* double, long whose values all read as numbers and are not all 0
ValuesIffAxisNumeric ==
    Segmented =>
        /\ axis(stats) = IF AxisNumeric(stats[1].field_type)
                            /\ AllParsed(stats) /\ ~AllZero(stats)
                         THEN ParsedValues(stats) ELSE sizes_axis(stats)
        /\ seg_dict = segment_values(Len(stats), axis(stats))

\* values 0, 0: the sizes are the axis for a numeric kind
C24_AllZero ==
    /\ Segmented
    /\ AxisNumeric(stats[1].field_type)
    /\ Len(stats) = 2 /\ AllParsed(stats) /\ AllZero(stats)
    /\ axis(stats) = sizes_axis(stats)

\* a value of a long field that does not read as a number
C24_NotParsed ==
    /\ Segmented
    /\ AxisNumeric(stats[1].field_type)
    /\ ~AllParsed(stats)
    /\ axis(stats) = sizes_axis(stats)

-----------------------------------------------------------------------------
(* Bitfield records *)

\* record i of the current packet is a bitfield record
IsBitRecord(i) == records[i].bitfields_count # None

\* bit j (1 is the most significant) of the byte b
BitOf(b, j) == (b \div (2 ^ (8 - j))) % 2

\* the value of record i is the bit list of the size bytes at its offset
BitsOfBytesRead(i, size) ==
    LET v == records[i].value
    IN  /\ v.k = "list"
        /\ Len(v.l) = 8 * size
        /\ \A b \in 1..size, j \in 1..8 :
              v.l[8 * (b - 1) + j] = IntV(BitOf(payload[SizesBefore(i) + b], j))
        /\ records[i].bitfields_count
              = Cardinality({ k \in 1..Len(v.l) : v.l[k] = IntV(1) })

\* C25: the value of every bitfield record is a bit list of length exactly
\* 8 * resolvedSize holding the bits of the resolvedSize bytes read at the
\* field's offset, most significant bit first, and bitSetCount is the
\* number of 1 bits in it, for every resolved size the decoder accepts,
\* including 0.
C25_BitListOfResolvedSize ==
    Decoding =>
        \A i \in 1..Len(records) :
            IsBitRecord(i) => BitsOfBytesRead(i, records[i].size)

\* a bitfield of resolved size 0: its value is the list [0]
C25_Witness ==
    /\ Decoding
    /\ \E i \in 1..Len(records) :
         /\ IsBitRecord(i)
         /\ records[i].size = 0
         /\ records[i].value = ListV(<<IntV(0)>>)
         /\ records[i].bitfields_count = 0

\* what holds: the statement for every resolved size of at least 1, and a
\* list of the single bit 0 for the resolved size 0
BitListOfPositiveSize ==
    Decoding =>
        \A i \in 1..Len(records) :
            IsBitRecord(i) =>
                /\ records[i].size >= 0
                /\ records[i].size >= 1 => BitsOfBytesRead(i, records[i].size)
                /\ records[i].size = 0 => records[i].value = ListV(<<IntV(0)>>)

\* a bitfield of one byte with bits set
C25_OneByte ==
    /\ Decoding
    /\ \E i \in 1..Len(records) :
         /\ IsBitRecord(i)
         /\ records[i].size = 1
         /\ records[i].bitfields_count = 3
         /\ BitsOfBytesRead(i, 1)

-----------------------------------------------------------------------------
(* Sizes and offsets within a packet *)

\* the bytes record i was read from
ByteRange(i) == (SizesBefore(i) + 1)..(SizesBefore(i) + records[i].size)

\* C26: while a packet is decoded every resolved size is non-negative, the
\* offset never decreases and never exceeds the payload length; the
\* resolved sizes of the records sum to at most the payload length and no
\* two records of the packet are read from overlapping byte ranges.
C26_SizesAndOffsets ==
    Decoding =>
        /\ \A i \in 1..Len(records) : records[i].size >= 0
        /\ \A i \in 1..Len(records) : SizesBefore(i) <= SizesBefore(i + 1)
        /\ offset <= Len(payload)
        /\ SizesBefore(Len(records) + 1) <= Len(payload)
        /\ \A i, j \in 1..Len(records) :
              i # j => ByteRange(i) \cap ByteRange(j) = {}

\* a payload of one byte and the fields id (1 byte), msg (the rest) and crc
\* (1 byte): msg resolves to -1 bytes, the offset goes back to 0 and crc is
\* read from the byte of id
C26_Witness ==
    /\ pc = "packet_end"
    /\ Len(payload) = 1
    /\ Len(records) = 3
    /\ records[1].size = 1 /\ records[2].size = -1 /\ records[3].size = 1
    /\ offset = 1
    /\ ByteRange(1) = ByteRange(3)

\* what holds: the offset never exceeds the payload length, and sizes
\* below 0 are resolved only for dynamic fields
OffsetWithinPayload ==
    Decoding =>
        /\ offset <= Len(payload)
        /\ \A i \in 1..Len(records) :
              records[i].size < 0 => Dynamic(protocol_df[i])

-----------------------------------------------------------------------------
(* Errors while a packet is decoded *)

\* an exception left the loop over the rows and with it parse_pcap_with_ip
Raised == pc = "raised"

\* C27: for every accepted schema and every payload, decoding one packet
\* ends after the last field or at the bounds check and never raises an
\* error, so a single packet never aborts the decoding of the capture.
C27_NeverRaises == ~Raised

\* a float field whose size field gives it 1 byte: struct.unpack('!f', ...)
\* raises on the chunk of 1 byte
C27_Witness ==
    /\ Raised
    /\ idx <= Len(protocol_df)
    /\ lower(protocol_df[idx].type.tok) = "float"
    /\ resolve_size(protocol_df, idx, Len(payload), offset, packet_data) = 1

\* what holds: an error is raised only by a float or double field whose
\* resolved size (element size) is not 4 or 8, by an array without
\* elements, and by a bitfield of negative resolved size
RaisedOnlyOnWidth ==
    Raised =>
        LET row   == protocol_df[idx]
            fsize == resolve_size(protocol_df, idx, Len(payload), offset, packet_data)
        IN  \/ lower(row.type.tok) = "float" /\ (row.type.arr \/ fsize # 4)
            \/ lower(row.type.tok) = "double" /\ (row.type.arr \/ fsize # 8)
            \/ row.type.arr /\ row.num_elements = 0
            \/ row.is_bitfield /\ fsize < 0

-----------------------------------------------------------------------------
(* The 1% threshold and the number of occurrences *)

\* the axis has a range other than 0
NonZeroRange(ax) == HasNaN(ax) \/ Cardinality(ValueSet(ax)) >= 2

\* the segmentation took the branch of line 428: a range other than 0 and
\* the single segment "100%"
Collapsed ==
    /\ Segmented
    /\ Len(stats) >= 2
    /\ NonZeroRange(axis(stats))
    /\ Len(seg_dict) = 1

\* C28: for every occurrence list with between 2 and 101 occurrences whose
\* axis has non-zero range the largest consecutive gap is at least 1% of
\* the range: segment_stats does not take the 1% branch and returns a main
\* segment in addition to "100%"; the collapse on the threshold happens
\* only with 102 or more occurrences.
C28_NoCollapseUpTo101 ==
    /\ (Segmented /\ Len(stats) >= 2 /\ Len(stats) <= 101
          /\ NonZeroRange(axis(stats))) =>
            /\ HasNaN(axis(stats))
                  \/ LET S == ValueSet(axis(stats))
                      IN  100 * LargestGap(S) >= Highest(S) - Lowest(S)
            /\ Len(seg_dict) = 2
            /\ seg_dict[1][1] # "100%"
            /\ seg_dict[2] = Whole
    /\ Collapsed => Len(stats) >= 102

\* 101 occurrences whose largest gap is exactly 1% of the range: two
\* segments
C28_Witness ==
    /\ Segmented
    /\ Len(stats) = 101
    /\ LET S == ValueSet(axis(stats))
       IN  /\ ~HasNaN(axis(stats))
           /\ Cardinality(S) = 101
           /\ 100 * LargestGap(S) = Highest(S) - Lowest(S)
    /\ Len(seg_dict) = 2
    /\ seg_dict[1][1] = "99%"

\* 102 occurrences with equal gaps: the single segment
C28_CollapseAt102 ==
    /\ Collapsed
    /\ Len(stats) = 102
    /\ seg_dict = <<Whole>>

-----------------------------------------------------------------------------
(* The features of train_model.py *)

\* what one occurrence adds to vals (train_model.py, lines 225-232)
train_vals_of(s) ==
    IF s.value.k = "list"
    THEN Tabulate(Len(s.value.l), LAMBDA k : float_or_zero(s.value.l[k]))
    ELSE <<float_or_zero(s.value)>>

\* np.array(vals) if vals else np.array([0.0]) (line 233)
train_vals(vals) == IF vals = <<>> THEN <<Num(0)>> ELSE vals

\* extract_aggregated_features of train_model.py (lines 222-244)
train_extract_aggregated_features(st) ==
    aggregate(Tabulate(Len(st), LAMBDA i : Num(st[i].size)),
              train_vals(Flatten(Tabulate(Len(st), LAMBDA i : train_vals_of(st[i])))))

\* the segments of the field that is synthesized, as occurrence lists
SegmentsOfField == { SegmentOf(stats, seg_dict, k) : k \in 1..Len(seg_dict) }

\* C29: training and prediction see the same features: for every list of
\* decoded occurrences the feature vector of extract_aggregated_features
\* of train_model.py equals that of predict_DPI.py; a scalar occurrence of
\* a non-numeric declared type contributes 0.0 to the value statistics in
\* both.
C29_SameFeatures ==
    Synthesizing =>
        \A st \in SegmentsOfField :
            create_feature_vector(train_extract_aggregated_features(st))
                = create_feature_vector(extract_aggregated_features(st))

\* a char field with the text "1": the value statistics are 1.0 in
\* training and 0.0 in prediction
C29_Witness ==
    /\ Synthesizing
    /\ Len(stats) = 1
    /\ lower(stats[1].field_type.tok) = "char" /\ ~stats[1].field_type.arr
    /\ stats[1].value = StrV(<<49>>)
    /\ train_extract_aggregated_features(stats).max_value = Num(1)
    /\ extract_aggregated_features(stats).max_value = Num(0)

\* a scalar occurrence whose declared type is not numeric for line 365 and
\* whose value reads as a number other than 0
ReadsAsNumber(s) ==
    /\ s.value.k # "list"
    /\ ~(~s.field_type.arr
          /\ lower(s.field_type.tok) \in {"int", "float", "double", "long", "short"})
    /\ float_or_zero(s.value) # Num(0)

\* what holds: the two vectors are equal unless an occurrence of a
\* non-numeric type reads as a number
SameFeaturesOnNumeric ==
    Synthesizing =>
        \A st \in SegmentsOfField :
            (\A i \in 1..Len(st) : ~ReadsAsNumber(st[i])) =>
                create_feature_vector(train_extract_aggregated_features(st))
                    = create_feature_vector(extract_aggregated_features(st))

\* arrays and bitfields: the same vector
C29_ListValues ==
    /\ Synthesizing
    /\ Len(stats) = 2
    /\ stats[1].value.k = "list"
    /\ extract_aggregated_features(stats).max_value = Num(49)
    /\ train_extract_aggregated_features(stats) = extract_aggregated_features(stats)

-----------------------------------------------------------------------------
(* The order of the bounds of a descriptor *)

\* a <= b for two bounds of a descriptor, entry by entry for lists
Ordered(a, b) ==
    CASE a.k = "num" /\ b.k = "num" ->
            ~a.x.nan /\ ~b.x.nan /\ a.x.n <= b.x.n
      [] a.k = "list" /\ b.k = "list" ->
            /\ Len(a.l) = Len(b.l)
            /\ \A i \in 1..Len(a.l) :
                  ~a.l[i].nan /\ ~b.l[i].nan /\ a.l[i].n <= b.l[i].n
      [] OTHER -> FALSE

\* C30: in every descriptor produced by generate_dpi, for every output of
\* the model, minSize <= maxSize and, when they are not null,
\* minValue <= maxValue (entry by entry for the lists of fixed arrays).
C30_BoundsOrdered ==
    \A e \in Produced :
        /\ Ordered(e.dpi.min_size, e.dpi.max_size)
        /\ (e.dpi.min_value.k # "null" /\ e.dpi.max_value.k # "null")
              => Ordered(e.dpi.min_value, e.dpi.max_value)

\* the model predicts 6 for minSize and nothing for maxSize, the observed
\* size is 1: the descriptor has minSize 6 and maxSize 1
C30_Witness ==
    /\ pc = "done"
    /\ oracle.min_size = Num(6) /\ oracle.max_size = NaN
    /\ \E e \in Returned :
         /\ e.dpi.min_size = DNum(Num(6))
         /\ e.dpi.max_size = DNum(Num(1))

\* a bound that is not-a-number, or holds one
Unordered(a) ==
    \/ a.k = "num" /\ a.x.nan
    \/ a.k = "list" /\ \E i \in 1..Len(a.l) : a.l[i].nan

\* what holds: the sizes are in order when the model predicts neither or
\* both of them, and the values are when it predicts neither or both and
\* no observed value is not-a-number
BoundsOrderedWhenObserved ==
    \A e \in Produced :
        /\ oracle.min_size = oracle.max_size
              => Ordered(e.dpi.min_size, e.dpi.max_size)
        /\ (/\ oracle.min_value = oracle.max_value \/ e.dpi.min_value.k = "list"
            /\ e.dpi.min_value.k # "null" /\ e.dpi.max_value.k # "null"
            /\ ~Unordered(e.dpi.min_value) /\ ~Unordered(e.dpi.max_value))
              => Ordered(e.dpi.min_value, e.dpi.max_value)

====
